---- MODULE Spec2Model ----
(***************************************************************************)
(* StreamAI recording front end: the Dashboard record button, the          *)
(* IntegratedRecording component with its IntegratedRecordingService       *)
(* (WebSocket + REST), and the task polling loop of videoProcessingAPI,    *)
(* against the session orchestrator of the recording server.               *)
(*                                                                         *)
(* The server (obs/*.py) is not part of the front-end sources; its         *)
(* orchestrator is modelled from the design document (spec.md 4.1, 4.2).   *)
(***************************************************************************)
EXTENDS Integers, Sequences, FiniteSets, TLC

VARIABLES
    \* ---- session orchestrator (server) ----
    srvState,        \* state of the latest session
    srvSid,          \* number of sessions created so far
    srvAuto,         \* autoUpload of the latest session
    \* ---- Dashboard.tsx ----
    isDemo,          \* useAppMode().isDemo
    streamTitle,     \* the stream title field
    dashIsRecording, \* Dashboard's isRecording
    dashCalls,       \* handleStartRecord calls awaiting their fetch
    dashAlert,       \* last alert() shown by handleStartRecord
    \* ---- IntegratedRecordingService ----
    socket,          \* this.socket: "null", "connecting" or "open"
    svcConnected,    \* this.isConnected
    ws,              \* events published to this client, not yet delivered
    nPub,            \* events published to this client since it subscribed
    nCleanup,        \* cleanups (leave_recording_updates, socket.disconnect) of the current socket
    nDisconnect,     \* disconnect() calls since the current socket was created
    \* ---- IntegratedRecording component ----
    initPc,          \* position of initializeService
    statusReq,       \* the initial getRecordingStatus request
    isRecording, isLoading, isConnected, error, sessionName, autoUpload,
    viewSid,         \* the session the component last showed as recording
    stoppedSid,      \* the latest session the component showed as stopped after recording
    recCall,         \* the startRecording / stopRecording request in flight
    reported,        \* last message handed to the onError prop, "none" if none
    lastCall,        \* the handler invoked last, with the flags of its closure
    lastFired,       \* the callback fired last, with the event it was fired for
    \* ---- videoProcessingAPI.pollTaskProgress and Recordings.tsx ----
    tasks,           \* per uploaded task: its remote status, its poller, the callbacks it made
    procState,       \* processingStates[recording.id] of Recordings.tsx
    nUploading,      \* uploadVideoForProcessing calls in flight
    uploadIntervals, \* simulated-upload intervals of handleAutoMontage still running
    mockMode,        \* MOCK_MODE (VITE_MOCK_MODE === 'true')
    localProcessing, \* LOCAL_PROCESSING (VITE_LOCAL_PROCESSING === 'true')
    remoteUsed,      \* a request was sent to the remote processing server
    recEntry,        \* the recording's entry in the recordings list of Recordings.tsx
    \* ---- IntegratedRecordingService.manualUpload ----
    upCall,          \* the manualUpload request in flight
    upEnd,           \* how the last manualUpload call ended for its caller
    upSid,           \* the session the server last accepted a manual upload for
    \* ---- Transcription component ----
    transPc,         \* position of initializeComponent: "mount" or "ready"
    promptMessage,   \* the refinement prompt (state of the current render)
    messages,        \* the messages shown
    refineTimers,    \* raw texts whose setTimeout(refineMessage, 200) is pending
    refineReqs,      \* requests sent to POST /api/transcription/refine
    \* ---- SettingsProvider and the Settings component ----
    settingsPc,      \* position of the provider's loadSettings: "mount" or "ready"
    settings,        \* the provider's settings
    originalSettings,\* the provider's originalSettings
    isSaving,        \* the Settings component's isSaving
    saveCalls        \* saveSettings calls awaiting POST /api/settings, with their payload

vars == <<srvState, srvSid, srvAuto,
          isDemo, streamTitle, dashIsRecording, dashCalls, dashAlert,
          socket, svcConnected, ws, nPub, nCleanup, nDisconnect,
          initPc, statusReq, isRecording, viewSid, stoppedSid, isLoading, isConnected, error,
          sessionName, autoUpload, recCall, reported, lastCall, lastFired,
          tasks, procState, nUploading, uploadIntervals, mockMode, localProcessing, remoteUsed, recEntry,
          upCall, upEnd, upSid,
          transPc, promptMessage, messages, refineTimers, refineReqs,
          settingsPc, settings, originalSettings, isSaving, saveCalls>>

\* ------------------------------------------------------------------ bounds
MaxSessions == 2     \* sessions the orchestrator creates in one run
MaxInFlight == 2     \* Dashboard requests in flight together
MaxEvents   == 3     \* events published to one subscription
MaxDisconnects == 2  \* disconnect() calls on one socket
MaxUploads  == 2     \* uploads sent and not failed in one run
MaxTasks    == 1     \* tasks created by these uploads in one run
MaxPolls    == 4     \* getTaskStatus calls in one run
MaxIntervals == 1     \* intervals of failed uploads running together
MaxSaves    == 2     \* saveSettings calls in flight together
MaxMessages == 3     \* transcriptions the poll of the Transcription component receives

\* ------------------------------------------------------- session orchestrator
SessionStates == {"Idle", "Recording", "Stopping", "Uploading", "Completed", "Failed"}

\* A session occupies the device while Recording or Stopping.
SrvActive == srvState \in {"Recording", "Stopping"}

Ev(t, a) == [type |-> t, active |-> a]

\* Publish(events): deliver to the subscribed observer, in publication order;
\* each event is numbered as it is published.
Publish(evs, sid) ==
    IF socket = "open"
      THEN /\ nPub + Len(evs) <= MaxEvents
           /\ ws' = ws \o [i \in 1..Len(evs) |->
                             [type |-> evs[i].type, active |-> evs[i].active,
                              sid |-> sid, seq |-> nPub + i]]
           /\ nPub' = nPub + Len(evs)
      ELSE UNCHANGED <<ws, nPub>>

\* The events of a failure: the state change and the explicit error.
FailureEvents == <<Ev("recording_status_update", FALSE), Ev("error", FALSE)>>

\* StartSession: fails if a session is Recording or Stopping; otherwise calls
\* the controller's start, which either succeeds (Recording) or fails (the
\* session is created Failed).
SrvStartAnswers ==
    IF SrvActive THEN {"AlreadyRecording"}
    ELSE IF srvSid < MaxSessions THEN {"ok", "DeviceError"} ELSE {}

SrvStart(ans, auto) ==
    /\ ans \in SrvStartAnswers
    /\ CASE ans = "ok" ->
              /\ srvState' = "Recording"
              /\ srvSid' = srvSid + 1
              /\ srvAuto' = auto
              /\ Publish(<<Ev("recording_started", TRUE)>>, srvSid + 1)
         [] ans = "DeviceError" ->
              /\ srvState' = "Failed"
              /\ srvSid' = srvSid + 1
              /\ srvAuto' = auto
              /\ Publish(FailureEvents, srvSid + 1)
         [] OTHER -> UNCHANGED <<srvState, srvSid, srvAuto, ws, nPub>>

\* StopSession, first half: Recording -> Stopping, the controller's stop is called.
SrvStopBegin ==
    /\ srvState = "Recording"
    /\ srvState' = "Stopping"
    /\ UNCHANGED <<srvSid, srvAuto>>

\* StopSession, second half: the controller confirms the file (Uploading when
\* autoUpload, else Completed) or fails (Failed).
SrvStopEnd(ans) ==
    /\ srvState = "Stopping"
    /\ ans \in {"ok", "DeviceError"}
    /\ UNCHANGED <<srvSid, srvAuto>>
    /\ IF ans = "ok"
         THEN /\ srvState' = IF srvAuto THEN "Uploading" ELSE "Completed"
              /\ Publish(<<Ev("recording_stopped", FALSE)>>, srvSid)
         ELSE /\ srvState' = "Failed"
              /\ Publish(FailureEvents, srvSid)

\* A request, answered with r about session sid.
Answer(c, r, sid) == [c EXCEPT !.st = "resp", !.res = r, !.sid = sid]

Request(op) == [op |-> op, st |-> "req", res |-> "none", sid |-> 0]

NoCall == [op |-> "none", st |-> "none", res |-> "none", sid |-> 0]

\* The controller answers the stop; the caller that asked for it gets the result.
SrvStopConfirm(ans) ==
    /\ SrvStopEnd(ans)
    /\ dashCalls' = [i \in 1..Len(dashCalls) |->
                       IF dashCalls[i].st = "proc" THEN Answer(dashCalls[i], ans, srvSid)
                       ELSE dashCalls[i]]
    /\ recCall' = IF recCall.st = "proc" THEN Answer(recCall, ans, srvSid) ELSE recCall
    /\ UNCHANGED <<isDemo, streamTitle, dashIsRecording, dashAlert, socket,
                   svcConnected, nCleanup, nDisconnect, initPc, statusReq,
                   isRecording, viewSid, stoppedSid, isLoading, isConnected,
                   error, sessionName, autoUpload, reported, lastCall,
                   lastFired, tasks, procState, nUploading, uploadIntervals,
                   mockMode, localProcessing, remoteUsed, recEntry, upCall,
                   upEnd, upSid, transPc, promptMessage, messages, refineTimers,
                   refineReqs, settingsPc, settings, originalSettings, isSaving,
                   saveCalls>>

\* The upload of a stopped session ends: taskDone, or taskError with the retries used up.
SrvUploadResult(ok) ==
    /\ srvState = "Uploading"
    /\ IF ok THEN /\ srvState' = "Completed"
                  /\ UNCHANGED <<ws, nPub>>
             ELSE /\ srvState' = "Failed"
                  /\ Publish(FailureEvents, srvSid)
    /\ UNCHANGED <<srvSid, srvAuto, isDemo, streamTitle, dashIsRecording,
                   dashCalls, dashAlert, socket, svcConnected, nCleanup,
                   nDisconnect, initPc, statusReq, isRecording, viewSid,
                   stoppedSid, isLoading, isConnected, error, sessionName,
                   autoUpload, recCall, reported, lastCall, lastFired, tasks,
                   procState, nUploading, uploadIntervals, mockMode,
                   localProcessing, remoteUsed, recEntry, upCall, upEnd, upSid,
                   transPc, promptMessage, messages, refineTimers, refineReqs,
                   settingsPc, settings, originalSettings, isSaving, saveCalls>>

\* The device fails while recording: Recording -> Failed.
SrvDeviceError ==
    /\ srvState = "Recording"
    /\ srvState' = "Failed"
    /\ Publish(FailureEvents, srvSid)
    /\ UNCHANGED <<srvSid, srvAuto, isDemo, streamTitle, dashIsRecording,
                   dashCalls, dashAlert, socket, svcConnected, nCleanup,
                   nDisconnect, initPc, statusReq, isRecording, viewSid,
                   stoppedSid, isLoading, isConnected, error, sessionName,
                   autoUpload, recCall, reported, lastCall, lastFired, tasks,
                   procState, nUploading, uploadIntervals, mockMode,
                   localProcessing, remoteUsed, recEntry, upCall, upEnd, upSid,
                   transPc, promptMessage, messages, refineTimers, refineReqs,
                   settingsPc, settings, originalSettings, isSaving, saveCalls>>

\* Another operator starts a session.
OperatorStart(ans) ==
    /\ ans # "AlreadyRecording"
    /\ SrvStart(ans, TRUE)
    /\ UNCHANGED <<isDemo, streamTitle, dashIsRecording, dashCalls, dashAlert,
                   socket, svcConnected, nCleanup, nDisconnect, initPc,
                   statusReq, isRecording, viewSid, stoppedSid, isLoading,
                   isConnected, error, sessionName, autoUpload, recCall,
                   reported, lastCall, lastFired, tasks, procState, nUploading,
                   uploadIntervals, mockMode, localProcessing, remoteUsed,
                   recEntry, upCall, upEnd, upSid, transPc, promptMessage,
                   messages, refineTimers, refineReqs, settingsPc, settings,
                   originalSettings, isSaving, saveCalls>>

\* Another operator stops the session.
OperatorStop ==
    /\ SrvStopBegin
    /\ UNCHANGED <<isDemo, streamTitle, dashIsRecording, dashCalls, dashAlert,
                   socket, svcConnected, ws, nPub, nCleanup, nDisconnect,
                   initPc, statusReq, isRecording, viewSid, stoppedSid,
                   isLoading, isConnected, error, sessionName, autoUpload,
                   recCall, reported, lastCall, lastFired, tasks, procState,
                   nUploading, uploadIntervals, mockMode, localProcessing,
                   remoteUsed, recEntry, upCall, upEnd, upSid, transPc,
                   promptMessage, messages, refineTimers, refineReqs,
                   settingsPc, settings, originalSettings, isSaving, saveCalls>>

\* The orchestrator publishes a status sample.
PublishStatus ==
    /\ socket = "open"
    /\ Publish(<<Ev("recording_status_update", SrvActive)>>, srvSid)
    /\ UNCHANGED <<srvState, srvSid, srvAuto, isDemo, streamTitle,
                   dashIsRecording, dashCalls, dashAlert, socket, svcConnected,
                   nCleanup, nDisconnect, initPc, statusReq, isRecording,
                   viewSid, stoppedSid, isLoading, isConnected, error,
                   sessionName, autoUpload, recCall, reported, lastCall,
                   lastFired, tasks, procState, nUploading, uploadIntervals,
                   mockMode, localProcessing, remoteUsed, recEntry, upCall,
                   upEnd, upSid, transPc, promptMessage, messages, refineTimers,
                   refineReqs, settingsPc, settings, originalSettings, isSaving,
                   saveCalls>>

\* ------------------------------------------------------------ Dashboard.tsx
Titles == {"", " ", "demo"}

\* String.prototype.trim() on the titles of the model.
Trim(s) == IF s = " " THEN "" ELSE s

\* The title field is edited.
SetStreamTitle(t) ==
    /\ t \in Titles
    /\ t # streamTitle
    /\ streamTitle' = t
    /\ UNCHANGED <<srvState, srvSid, srvAuto, isDemo, dashIsRecording,
                   dashCalls, dashAlert, socket, svcConnected, ws, nPub,
                   nCleanup, nDisconnect, initPc, statusReq, isRecording,
                   viewSid, stoppedSid, isLoading, isConnected, error,
                   sessionName, autoUpload, recCall, reported, lastCall,
                   lastFired, tasks, procState, nUploading, uploadIntervals,
                   mockMode, localProcessing, remoteUsed, recEntry, upCall,
                   upEnd, upSid, transPc, promptMessage, messages, refineTimers,
                   refineReqs, settingsPc, settings, originalSettings, isSaving,
                   saveCalls>>

\* handleStartRecord without its "if (isDemo)" guard.
HandleStartRecordNoDemoGuard ==
    /\ UNCHANGED <<srvState, srvSid, srvAuto, isDemo, streamTitle,
                   dashIsRecording, socket, svcConnected, ws, nPub, nCleanup,
                   nDisconnect, initPc, statusReq, isRecording, viewSid,
                   stoppedSid, isLoading, isConnected, error, sessionName,
                   autoUpload, recCall, reported, lastCall, lastFired, tasks,
                   procState, nUploading, uploadIntervals, mockMode,
                   localProcessing, remoteUsed, recEntry, upCall, upEnd, upSid,
                   transPc, promptMessage, messages, refineTimers, refineReqs,
                   settingsPc, settings, originalSettings, isSaving, saveCalls>>
    /\ IF Trim(streamTitle) = ""
         THEN /\ dashAlert' = "title"
              /\ UNCHANGED dashCalls
       ELSE /\ Len(dashCalls) < MaxInFlight
            /\ dashCalls' = Append(dashCalls,
                   Request(IF dashIsRecording THEN "stop" ELSE "start"))
            /\ UNCHANGED dashAlert

\* handleStartRecord up to its first await: the guards, then the fetch of
\* /api/recording/stop (isRecording) or /api/recording/start.
HandleStartRecord ==
    /\ UNCHANGED <<srvState, srvSid, srvAuto, isDemo, streamTitle,
                   dashIsRecording, socket, svcConnected, ws, nPub, nCleanup,
                   nDisconnect, initPc, statusReq, isRecording, viewSid,
                   stoppedSid, isLoading, isConnected, error, sessionName,
                   autoUpload, recCall, reported, lastCall, lastFired, tasks,
                   procState, nUploading, uploadIntervals, mockMode,
                   localProcessing, remoteUsed, recEntry, upCall, upEnd, upSid,
                   transPc, promptMessage, messages, refineTimers, refineReqs,
                   settingsPc, settings, originalSettings, isSaving, saveCalls>>
    /\ IF Trim(streamTitle) = ""
         THEN /\ dashAlert' = "title"
              /\ UNCHANGED dashCalls
       ELSE IF isDemo
         THEN /\ dashAlert' = "demo"
              /\ UNCHANGED dashCalls
       ELSE /\ Len(dashCalls) < MaxInFlight
            /\ dashCalls' = Append(dashCalls,
                   Request(IF dashIsRecording THEN "stop" ELSE "start"))
            /\ UNCHANGED dashAlert

Remove(s, i) == SubSeq(s, 1, i - 1) \o SubSeq(s, i + 1, Len(s))

\* The server takes a Dashboard start request (POST /api/recording/start).
DashSrvStart(i) ==
    /\ i \in 1..Len(dashCalls)
    /\ dashCalls[i].st = "req" /\ dashCalls[i].op = "start"
    /\ \E ans \in SrvStartAnswers :
         /\ SrvStart(ans, TRUE)
         /\ dashCalls' = [dashCalls EXCEPT ![i] = Answer(@, ans, srvSid')]
    /\ UNCHANGED <<isDemo, streamTitle, dashIsRecording, dashAlert, socket,
                   svcConnected, nCleanup, nDisconnect, initPc, statusReq,
                   isRecording, viewSid, stoppedSid, isLoading, isConnected,
                   error, sessionName, autoUpload, recCall, reported, lastCall,
                   lastFired, tasks, procState, nUploading, uploadIntervals,
                   mockMode, localProcessing, remoteUsed, recEntry, upCall,
                   upEnd, upSid, transPc, promptMessage, messages, refineTimers,
                   refineReqs, settingsPc, settings, originalSettings, isSaving,
                   saveCalls>>

\* The server takes a Dashboard stop request (POST /api/recording/stop).
DashSrvStop(i) ==
    /\ i \in 1..Len(dashCalls)
    /\ dashCalls[i].st = "req" /\ dashCalls[i].op = "stop"
    /\ IF srvState = "Recording"
         THEN /\ SrvStopBegin
              /\ dashCalls' = [dashCalls EXCEPT ![i].st = "proc"]
         ELSE /\ UNCHANGED <<srvState, srvSid, srvAuto>>
              /\ dashCalls' = [dashCalls EXCEPT ![i] = Answer(@, "NotRecording", srvSid)]
    /\ UNCHANGED <<isDemo, streamTitle, dashIsRecording, dashAlert, socket,
                   svcConnected, ws, nPub, nCleanup, nDisconnect, initPc,
                   statusReq, isRecording, viewSid, stoppedSid, isLoading,
                   isConnected, error, sessionName, autoUpload, recCall,
                   reported, lastCall, lastFired, tasks, procState, nUploading,
                   uploadIntervals, mockMode, localProcessing, remoteUsed,
                   recEntry, upCall, upEnd, upSid, transPc, promptMessage,
                   messages, refineTimers, refineReqs, settingsPc, settings,
                   originalSettings, isSaving, saveCalls>>

\* fetch() rejects: the request or its answer is lost on the way.
DashNetFail(i) ==
    /\ i \in 1..Len(dashCalls)
    /\ dashCalls[i].st \in {"req", "resp"}
    /\ dashCalls[i].res # "neterr"
    /\ dashCalls' = [dashCalls EXCEPT ![i] = Answer(@, "neterr", 0)]
    /\ UNCHANGED <<srvState, srvSid, srvAuto, isDemo, streamTitle,
                   dashIsRecording, dashAlert, socket, svcConnected, ws, nPub,
                   nCleanup, nDisconnect, initPc, statusReq, isRecording,
                   viewSid, stoppedSid, isLoading, isConnected, error,
                   sessionName, autoUpload, recCall, reported, lastCall,
                   lastFired, tasks, procState, nUploading, uploadIntervals,
                   mockMode, localProcessing, remoteUsed, recEntry, upCall,
                   upEnd, upSid, transPc, promptMessage, messages, refineTimers,
                   refineReqs, settingsPc, settings, originalSettings, isSaving,
                   saveCalls>>

\* handleStartRecord after its await: result.success sets isRecording, a
\* failure is alerted; a rejected fetch goes to the catch block.
DashResponse(i) ==
    /\ i \in 1..Len(dashCalls)
    /\ dashCalls[i].st = "resp"
    /\ dashCalls' = Remove(dashCalls, i)
    /\ IF dashCalls[i].res = "ok"
         THEN /\ dashIsRecording' = (dashCalls[i].op = "start")
              /\ UNCHANGED dashAlert
       ELSE IF dashCalls[i].res = "neterr"
         THEN /\ dashAlert' = "api"
              /\ UNCHANGED dashIsRecording
       ELSE /\ dashAlert' = dashCalls[i].res
            /\ UNCHANGED dashIsRecording
    /\ UNCHANGED <<srvState, srvSid, srvAuto, isDemo, streamTitle, socket,
                   svcConnected, ws, nPub, nCleanup, nDisconnect, initPc,
                   statusReq, isRecording, viewSid, stoppedSid, isLoading,
                   isConnected, error, sessionName, autoUpload, recCall,
                   reported, lastCall, lastFired, tasks, procState, nUploading,
                   uploadIntervals, mockMode, localProcessing, remoteUsed,
                   recEntry, upCall, upEnd, upSid, transPc, promptMessage,
                   messages, refineTimers, refineReqs, settingsPc, settings,
                   originalSettings, isSaving, saveCalls>>

\* ---------------------------------------------- IntegratedRecordingService
NoFired == [cb |-> "none", seq |-> 0, type |-> "none"]

\* seq is the number of events that had been published to this client when
\* the server took the request.
NoStatus == [st |-> "none", sid |-> 0, seq |-> 0]

\* initializeService up to its first await: initializeWebSocket() creates the
\* socket and registers the listeners.
InitializeService ==
    /\ socket = "null"
    /\ initPc \in {"start", "connecting", "done", "failed"}
    /\ socket' = "connecting"
    /\ initPc' = "connecting"
    /\ nCleanup' = 0 /\ nDisconnect' = 0
    /\ UNCHANGED <<srvState, srvSid, srvAuto, isDemo, streamTitle,
                   dashIsRecording, dashCalls, dashAlert, svcConnected, ws,
                   nPub, statusReq, isRecording, viewSid, stoppedSid, isLoading,
                   isConnected, error, sessionName, autoUpload, recCall,
                   reported, lastCall, lastFired, tasks, procState, nUploading,
                   uploadIntervals, mockMode, localProcessing, remoteUsed,
                   recEntry, upCall, upEnd, upSid, transPc, promptMessage,
                   messages, refineTimers, refineReqs, settingsPc, settings,
                   originalSettings, isSaving, saveCalls>>

\* 'connect': isConnected, join_recording_updates, resolve(); initializeService
\* goes on: setIsConnected(true), the callbacks, then getRecordingStatus().
\* The hub registers the observer and sends it the current snapshot.
WsConnect ==
    /\ socket = "connecting" /\ initPc = "connecting"
    /\ socket' = "open"
    /\ ws' = ws \o <<[type |-> "recording_status_update", active |-> SrvActive,
                      sid |-> srvSid, seq |-> nPub + 1]>>
    /\ nPub' = nPub + 1
    /\ svcConnected' = TRUE
    /\ isConnected' = TRUE
    /\ statusReq' = [st |-> "req", sid |-> 0, seq |-> 0]
    /\ initPc' = "status"
    /\ UNCHANGED <<srvState, srvSid, srvAuto, isDemo, streamTitle,
                   dashIsRecording, dashCalls, dashAlert, nCleanup, nDisconnect,
                   isRecording, viewSid, stoppedSid, isLoading, error,
                   sessionName, autoUpload, recCall, reported, lastCall,
                   lastFired, tasks, procState, nUploading, uploadIntervals,
                   mockMode, localProcessing, remoteUsed, recEntry, upCall,
                   upEnd, upSid, transPc, promptMessage, messages, refineTimers,
                   refineReqs, settingsPc, settings, originalSettings, isSaving,
                   saveCalls>>

\* 'connect_error': reject(error); the catch block of initializeService.
WsConnectError ==
    /\ socket = "connecting" /\ initPc = "connecting"
    /\ initPc' = "failed"
    /\ error' = "init"
    /\ isConnected' = FALSE
    /\ UNCHANGED <<srvState, srvSid, srvAuto, isDemo, streamTitle,
                   dashIsRecording, dashCalls, dashAlert, socket, svcConnected,
                   ws, nPub, nCleanup, nDisconnect, statusReq, isRecording,
                   viewSid, stoppedSid, isLoading, sessionName, autoUpload,
                   recCall, reported, lastCall, lastFired, tasks, procState,
                   nUploading, uploadIntervals, mockMode, localProcessing,
                   remoteUsed, recEntry, upCall, upEnd, upSid, transPc,
                   promptMessage, messages, refineTimers, refineReqs,
                   settingsPc, settings, originalSettings, isSaving, saveCalls>>

\* GET /api/integrated/recording/status is answered with GetStatus().
SrvStatus ==
    /\ statusReq.st = "req"
    /\ statusReq' = [st |-> IF SrvActive THEN "active" ELSE "idle", sid |-> srvSid,
                     seq |-> nPub]
    /\ UNCHANGED <<srvState, srvSid, srvAuto, isDemo, streamTitle,
                   dashIsRecording, dashCalls, dashAlert, socket, svcConnected,
                   ws, nPub, nCleanup, nDisconnect, initPc, isRecording,
                   viewSid, stoppedSid, isLoading, isConnected, error,
                   sessionName, autoUpload, recCall, reported, lastCall,
                   lastFired, tasks, procState, nUploading, uploadIntervals,
                   mockMode, localProcessing, remoteUsed, recEntry, upCall,
                   upEnd, upSid, transPc, promptMessage, messages, refineTimers,
                   refineReqs, settingsPc, settings, originalSettings, isSaving,
                   saveCalls>>

\* getRecordingStatus rejects (fetch fails or the answer is not ok).
StatusNetFail ==
    /\ statusReq.st \in {"req", "active", "idle"}
    /\ statusReq' = [st |-> "fail", sid |-> 0, seq |-> 0]
    /\ UNCHANGED <<srvState, srvSid, srvAuto, isDemo, streamTitle,
                   dashIsRecording, dashCalls, dashAlert, socket, svcConnected,
                   ws, nPub, nCleanup, nDisconnect, initPc, isRecording,
                   viewSid, stoppedSid, isLoading, isConnected, error,
                   sessionName, autoUpload, recCall, reported, lastCall,
                   lastFired, tasks, procState, nUploading, uploadIntervals,
                   mockMode, localProcessing, remoteUsed, recEntry, upCall,
                   upEnd, upSid, transPc, promptMessage, messages, refineTimers,
                   refineReqs, settingsPc, settings, originalSettings, isSaving,
                   saveCalls>>

\* setIsRecording(b) on information about session sid; it is noted which
\* session is shown as recording, and which one was then shown as stopped.
SetIsRecording(b, sid) ==
    /\ isRecording' = b
    /\ viewSid' = IF b THEN sid ELSE viewSid
    /\ stoppedSid' = IF isRecording /\ ~b THEN viewSid ELSE stoppedSid

\* initializeService after getRecordingStatus(): setIsRecording(status.active),
\* or the catch block.
InitStatusDone ==
    /\ initPc = "status"
    /\ statusReq.st \in {"active", "idle", "fail"}
    /\ statusReq' = NoStatus
    /\ IF statusReq.st = "fail"
         THEN /\ initPc' = "failed"
              /\ error' = "init"
              /\ isConnected' = FALSE
              /\ UNCHANGED <<isRecording, viewSid, stoppedSid>>
         ELSE /\ initPc' = "done"
              /\ SetIsRecording(statusReq.st = "active", statusReq.sid)
              /\ UNCHANGED <<error, isConnected>>
    /\ UNCHANGED <<srvState, srvSid, srvAuto, isDemo, streamTitle,
                   dashIsRecording, dashCalls, dashAlert, socket, svcConnected,
                   ws, nPub, nCleanup, nDisconnect, isLoading, sessionName,
                   autoUpload, recCall, reported, lastCall, lastFired, tasks,
                   procState, nUploading, uploadIntervals, mockMode,
                   localProcessing, remoteUsed, recEntry, upCall, upEnd, upSid,
                   transPc, promptMessage, messages, refineTimers, refineReqs,
                   settingsPc, settings, originalSettings, isSaving, saveCalls>>

CallbackOf(t) ==
    CASE t = "recording_started" -> "onRecordingStarted"
      [] t = "recording_stopped" -> "onRecordingStopped"
      [] t = "recording_status_update" -> "onStatusUpdate"
      [] t = "error" -> "onError"

\* WsDeliver with the recording_status_update listener missing: the event is
\* taken from the socket and no callback is called.
WsDeliverNoStatusListener ==
    /\ socket = "open" /\ ws # <<>>
    /\ ws' = Tail(ws)
    /\ IF Head(ws).type = "recording_status_update"
         THEN UNCHANGED <<lastFired, isRecording, viewSid, stoppedSid, error, reported>>
         ELSE /\ lastFired' = [cb |-> CallbackOf(Head(ws).type), seq |-> Head(ws).seq,
                               type |-> Head(ws).type]
              /\ IF Head(ws).type = "error"
                   THEN /\ error' = "DeviceError"
                        /\ reported' = "DeviceError"
                        /\ UNCHANGED <<isRecording, viewSid, stoppedSid>>
                   ELSE /\ SetIsRecording(Head(ws).active, Head(ws).sid)
                        /\ error' = IF Head(ws).type = "recording_started" THEN "none" ELSE error
                        /\ UNCHANGED reported
    /\ UNCHANGED <<srvState, srvSid, srvAuto, isDemo, streamTitle,
                   dashIsRecording, dashCalls, dashAlert, socket, svcConnected,
                   nPub, nCleanup, nDisconnect, initPc, statusReq, isLoading,
                   isConnected, sessionName, autoUpload, recCall, lastCall,
                   tasks, procState, nUploading, uploadIntervals, mockMode,
                   localProcessing, remoteUsed, recEntry, upCall, upEnd, upSid,
                   transPc, promptMessage, messages, refineTimers, refineReqs,
                   settingsPc, settings, originalSettings, isSaving, saveCalls>>

\* setupEventListeners: the listener of the event calls the callback the
\* component installed (initializeService).
WsDeliver ==
    /\ socket = "open" /\ ws # <<>>
    /\ ws' = Tail(ws)
    /\ lastFired' = [cb |-> CallbackOf(Head(ws).type), seq |-> Head(ws).seq,
                     type |-> Head(ws).type]
    /\ CASE Head(ws).type = "recording_started" ->
              /\ SetIsRecording(TRUE, Head(ws).sid)
              /\ error' = "none"
              /\ UNCHANGED reported
         [] Head(ws).type = "recording_stopped" ->
              /\ SetIsRecording(FALSE, Head(ws).sid)
              /\ UNCHANGED <<error, reported>>
         [] Head(ws).type = "recording_status_update" ->
              /\ SetIsRecording(Head(ws).active, Head(ws).sid)
              /\ UNCHANGED <<error, reported>>
         [] Head(ws).type = "error" ->
              /\ error' = "DeviceError"
              /\ reported' = "DeviceError"
              /\ UNCHANGED <<isRecording, viewSid, stoppedSid>>
    /\ UNCHANGED <<srvState, srvSid, srvAuto, isDemo, streamTitle,
                   dashIsRecording, dashCalls, dashAlert, socket, svcConnected,
                   nPub, nCleanup, nDisconnect, initPc, statusReq, isLoading,
                   isConnected, sessionName, autoUpload, recCall, lastCall,
                   tasks, procState, nUploading, uploadIntervals, mockMode,
                   localProcessing, remoteUsed, recEntry, upCall, upEnd, upSid,
                   transPc, promptMessage, messages, refineTimers, refineReqs,
                   settingsPc, settings, originalSettings, isSaving, saveCalls>>

\* disconnect() without its "if (this.socket)" guard.
DisconnectNoGuard ==
    /\ nDisconnect < MaxDisconnects
    /\ nDisconnect' = nDisconnect + 1
    /\ nCleanup' = nCleanup + 1
    /\ socket' = "null"
    /\ svcConnected' = FALSE
    /\ ws' = <<>> /\ nPub' = 0 /\ lastFired' = NoFired
    /\ UNCHANGED <<srvState, srvSid, srvAuto, isDemo, streamTitle,
                   dashIsRecording, dashCalls, dashAlert, initPc, statusReq,
                   isRecording, viewSid, stoppedSid, isLoading, isConnected,
                   error, sessionName, autoUpload, recCall, reported, lastCall,
                   tasks, procState, nUploading, uploadIntervals, mockMode,
                   localProcessing, remoteUsed, recEntry, upCall, upEnd, upSid,
                   transPc, promptMessage, messages, refineTimers, refineReqs,
                   settingsPc, settings, originalSettings, isSaving, saveCalls>>

\* disconnect(): with a socket, leave_recording_updates, socket.disconnect(),
\* socket = null, isConnected = false; without one, nothing.
Disconnect ==
    /\ nDisconnect < MaxDisconnects
    /\ nDisconnect' = nDisconnect + 1
    /\ IF socket # "null"
         THEN /\ nCleanup' = nCleanup + 1
              /\ socket' = "null"
              /\ svcConnected' = FALSE
              /\ ws' = <<>> /\ nPub' = 0 /\ lastFired' = NoFired
         ELSE UNCHANGED <<nCleanup, socket, svcConnected, ws, nPub, lastFired>>
    /\ UNCHANGED <<srvState, srvSid, srvAuto, isDemo, streamTitle,
                   dashIsRecording, dashCalls, dashAlert, initPc, statusReq,
                   isRecording, viewSid, stoppedSid, isLoading, isConnected,
                   error, sessionName, autoUpload, recCall, reported, lastCall,
                   tasks, procState, nUploading, uploadIntervals, mockMode,
                   localProcessing, remoteUsed, recEntry, upCall, upEnd, upSid,
                   transPc, promptMessage, messages, refineTimers, refineReqs,
                   settingsPc, settings, originalSettings, isSaving, saveCalls>>

\* ------------------------------------------------- IntegratedRecording
SessionNames == {"", "talk"}

\* The session name input (shown while not recording, disabled while loading).
SetSessionName(n) ==
    /\ ~isRecording /\ ~isLoading
    /\ n \in SessionNames /\ n # sessionName
    /\ sessionName' = n
    /\ UNCHANGED <<srvState, srvSid, srvAuto, isDemo, streamTitle,
                   dashIsRecording, dashCalls, dashAlert, socket, svcConnected,
                   ws, nPub, nCleanup, nDisconnect, initPc, statusReq,
                   isRecording, viewSid, stoppedSid, isLoading, isConnected,
                   error, autoUpload, recCall, reported, lastCall, lastFired,
                   tasks, procState, nUploading, uploadIntervals, mockMode,
                   localProcessing, remoteUsed, recEntry, upCall, upEnd, upSid,
                   transPc, promptMessage, messages, refineTimers, refineReqs,
                   settingsPc, settings, originalSettings, isSaving, saveCalls>>

\* The autoUpload checkbox (shown while not recording, disabled while loading).
SetAutoUpload ==
    /\ ~isRecording /\ ~isLoading
    /\ autoUpload' = ~autoUpload
    /\ UNCHANGED <<srvState, srvSid, srvAuto, isDemo, streamTitle,
                   dashIsRecording, dashCalls, dashAlert, socket, svcConnected,
                   ws, nPub, nCleanup, nDisconnect, initPc, statusReq,
                   isRecording, viewSid, stoppedSid, isLoading, isConnected,
                   error, sessionName, recCall, reported, lastCall, lastFired,
                   tasks, procState, nUploading, uploadIntervals, mockMode,
                   localProcessing, remoteUsed, recEntry, upCall, upEnd, upSid,
                   transPc, promptMessage, messages, refineTimers, refineReqs,
                   settingsPc, settings, originalSettings, isSaving, saveCalls>>

\* handleStartRecording guarded by isLoading alone.
HandleStartRecordingNoRecGuard ==
    /\ lastCall' = [h |-> "start", rec |-> isRecording, load |-> isLoading]
    /\ IF isLoading
         THEN UNCHANGED <<isLoading, error, recCall>>
         ELSE /\ isLoading' = TRUE
              /\ error' = "none"
              /\ recCall' = Request("start")
    /\ UNCHANGED <<srvState, srvSid, srvAuto, isDemo, streamTitle,
                   dashIsRecording, dashCalls, dashAlert, socket, svcConnected,
                   ws, nPub, nCleanup, nDisconnect, initPc, statusReq,
                   isRecording, viewSid, stoppedSid, isConnected, sessionName,
                   autoUpload, reported, lastFired, tasks, procState,
                   nUploading, uploadIntervals, mockMode, localProcessing,
                   remoteUsed, recEntry, upCall, upEnd, upSid, transPc,
                   promptMessage, messages, refineTimers, refineReqs,
                   settingsPc, settings, originalSettings, isSaving, saveCalls>>

\* handleStartRecording up to its await.
HandleStartRecording ==
    /\ lastCall' = [h |-> "start", rec |-> isRecording, load |-> isLoading]
    /\ IF isLoading \/ isRecording
         THEN UNCHANGED <<isLoading, error, recCall>>
         ELSE /\ isLoading' = TRUE
              /\ error' = "none"
              /\ recCall' = Request("start")
    /\ UNCHANGED <<srvState, srvSid, srvAuto, isDemo, streamTitle,
                   dashIsRecording, dashCalls, dashAlert, socket, svcConnected,
                   ws, nPub, nCleanup, nDisconnect, initPc, statusReq,
                   isRecording, viewSid, stoppedSid, isConnected, sessionName,
                   autoUpload, reported, lastFired, tasks, procState,
                   nUploading, uploadIntervals, mockMode, localProcessing,
                   remoteUsed, recEntry, upCall, upEnd, upSid, transPc,
                   promptMessage, messages, refineTimers, refineReqs,
                   settingsPc, settings, originalSettings, isSaving, saveCalls>>

\* handleStopRecording up to its await.
HandleStopRecording ==
    /\ lastCall' = [h |-> "stop", rec |-> isRecording, load |-> isLoading]
    /\ IF isLoading \/ ~isRecording
         THEN UNCHANGED <<isLoading, error, recCall>>
         ELSE /\ isLoading' = TRUE
              /\ error' = "none"
              /\ recCall' = Request("stop")
    /\ UNCHANGED <<srvState, srvSid, srvAuto, isDemo, streamTitle,
                   dashIsRecording, dashCalls, dashAlert, socket, svcConnected,
                   ws, nPub, nCleanup, nDisconnect, initPc, statusReq,
                   isRecording, viewSid, stoppedSid, isConnected, sessionName,
                   autoUpload, reported, lastFired, tasks, procState,
                   nUploading, uploadIntervals, mockMode, localProcessing,
                   remoteUsed, recEntry, upCall, upEnd, upSid, transPc,
                   promptMessage, messages, refineTimers, refineReqs,
                   settingsPc, settings, originalSettings, isSaving, saveCalls>>

\* The server takes POST /api/integrated/recording/start.
RecSrvStart ==
    /\ recCall.op = "start" /\ recCall.st = "req"
    /\ \E ans \in SrvStartAnswers :
         /\ SrvStart(ans, autoUpload)
         /\ recCall' = Answer(recCall, ans, srvSid')
    /\ UNCHANGED <<isDemo, streamTitle, dashIsRecording, dashCalls, dashAlert,
                   socket, svcConnected, nCleanup, nDisconnect, initPc,
                   statusReq, isRecording, viewSid, stoppedSid, isLoading,
                   isConnected, error, sessionName, autoUpload, reported,
                   lastCall, lastFired, tasks, procState, nUploading,
                   uploadIntervals, mockMode, localProcessing, remoteUsed,
                   recEntry, upCall, upEnd, upSid, transPc, promptMessage,
                   messages, refineTimers, refineReqs, settingsPc, settings,
                   originalSettings, isSaving, saveCalls>>

\* The server takes POST /api/integrated/recording/stop.
RecSrvStop ==
    /\ recCall.op = "stop" /\ recCall.st = "req"
    /\ IF srvState = "Recording"
         THEN /\ SrvStopBegin
              /\ recCall' = [recCall EXCEPT !.st = "proc"]
         ELSE /\ UNCHANGED <<srvState, srvSid, srvAuto>>
              /\ recCall' = Answer(recCall, "NotRecording", srvSid)
    /\ UNCHANGED <<isDemo, streamTitle, dashIsRecording, dashCalls, dashAlert,
                   socket, svcConnected, ws, nPub, nCleanup, nDisconnect,
                   initPc, statusReq, isRecording, viewSid, stoppedSid,
                   isLoading, isConnected, error, sessionName, autoUpload,
                   reported, lastCall, lastFired, tasks, procState, nUploading,
                   uploadIntervals, mockMode, localProcessing, remoteUsed,
                   recEntry, upCall, upEnd, upSid, transPc, promptMessage,
                   messages, refineTimers, refineReqs, settingsPc, settings,
                   originalSettings, isSaving, saveCalls>>

\* fetch() of startRecording / stopRecording rejects.
RecNetFail ==
    /\ recCall.st \in {"req", "resp"}
    /\ recCall.res # "neterr"
    /\ recCall' = Answer(recCall, "neterr", 0)
    /\ UNCHANGED <<srvState, srvSid, srvAuto, isDemo, streamTitle,
                   dashIsRecording, dashCalls, dashAlert, socket, svcConnected,
                   ws, nPub, nCleanup, nDisconnect, initPc, statusReq,
                   isRecording, viewSid, stoppedSid, isLoading, isConnected,
                   error, sessionName, autoUpload, reported, lastCall,
                   lastFired, tasks, procState, nUploading, uploadIntervals,
                   mockMode, localProcessing, remoteUsed, recEntry, upCall,
                   upEnd, upSid, transPc, promptMessage, messages, refineTimers,
                   refineReqs, settingsPc, settings, originalSettings, isSaving,
                   saveCalls>>

\* handleStartRecording after its await, without the finally block.
StartResponseNoFinally ==
    /\ recCall.op = "start" /\ recCall.st = "resp"
    /\ recCall' = NoCall
    /\ isLoading' = (recCall.res # "ok")
    /\ IF recCall.res = "ok"
         THEN /\ SetIsRecording(TRUE, recCall.sid)
              /\ UNCHANGED <<error, reported>>
         ELSE /\ error' = recCall.res
              /\ reported' = recCall.res
              /\ UNCHANGED <<isRecording, viewSid, stoppedSid>>
    /\ UNCHANGED <<srvState, srvSid, srvAuto, isDemo, streamTitle,
                   dashIsRecording, dashCalls, dashAlert, socket, svcConnected,
                   ws, nPub, nCleanup, nDisconnect, initPc, statusReq,
                   isConnected, sessionName, autoUpload, lastCall, lastFired,
                   tasks, procState, nUploading, uploadIntervals, mockMode,
                   localProcessing, remoteUsed, recEntry, upCall, upEnd, upSid,
                   transPc, promptMessage, messages, refineTimers, refineReqs,
                   settingsPc, settings, originalSettings, isSaving, saveCalls>>

\* handleStartRecording after its await: success, or catch; finally.
StartResponse ==
    /\ recCall.op = "start" /\ recCall.st = "resp"
    /\ recCall' = NoCall
    /\ isLoading' = FALSE
    /\ IF recCall.res = "ok"
         THEN /\ SetIsRecording(TRUE, recCall.sid)
              /\ UNCHANGED <<error, reported>>
         ELSE /\ error' = recCall.res
              /\ reported' = recCall.res
              /\ UNCHANGED <<isRecording, viewSid, stoppedSid>>
    /\ UNCHANGED <<srvState, srvSid, srvAuto, isDemo, streamTitle,
                   dashIsRecording, dashCalls, dashAlert, socket, svcConnected,
                   ws, nPub, nCleanup, nDisconnect, initPc, statusReq,
                   isConnected, sessionName, autoUpload, lastCall, lastFired,
                   tasks, procState, nUploading, uploadIntervals, mockMode,
                   localProcessing, remoteUsed, recEntry, upCall, upEnd, upSid,
                   transPc, promptMessage, messages, refineTimers, refineReqs,
                   settingsPc, settings, originalSettings, isSaving, saveCalls>>

\* handleStopRecording after its await: success, or catch; finally.
StopResponse ==
    /\ recCall.op = "stop" /\ recCall.st = "resp"
    /\ recCall' = NoCall
    /\ isLoading' = FALSE
    /\ IF recCall.res = "ok"
         THEN /\ SetIsRecording(FALSE, recCall.sid)
              /\ UNCHANGED <<error, reported>>
         ELSE /\ error' = recCall.res
              /\ reported' = recCall.res
              /\ UNCHANGED <<isRecording, viewSid, stoppedSid>>
    /\ UNCHANGED <<srvState, srvSid, srvAuto, isDemo, streamTitle,
                   dashIsRecording, dashCalls, dashAlert, socket, svcConnected,
                   ws, nPub, nCleanup, nDisconnect, initPc, statusReq,
                   isConnected, sessionName, autoUpload, lastCall, lastFired,
                   tasks, procState, nUploading, uploadIntervals, mockMode,
                   localProcessing, remoteUsed, recEntry, upCall, upEnd, upSid,
                   transPc, promptMessage, messages, refineTimers, refineReqs,
                   settingsPc, settings, originalSettings, isSaving, saveCalls>>


\* ---------------------------------- IntegratedRecordingService: the calls
\* startRecording, stopRecording and manualUpload throw when fetch rejects
\* and when the response is not ok; otherwise they return the parsed result.
Throws(c) == c.res \in {"neterr", "http"}

\* The response of startRecording / stopRecording is not ok (an HTTP error).
RecHttpError ==
    /\ recCall.st \in {"req", "resp"}
    /\ ~Throws(recCall)
    /\ recCall' = Answer(recCall, "http", 0)
    /\ UNCHANGED <<srvState, srvSid, srvAuto, isDemo, streamTitle,
                   dashIsRecording, dashCalls, dashAlert, socket, svcConnected,
                   ws, nPub, nCleanup, nDisconnect, initPc, statusReq,
                   isRecording, viewSid, stoppedSid, isLoading, isConnected,
                   error, sessionName, autoUpload, reported, lastCall,
                   lastFired, tasks, procState, nUploading, uploadIntervals,
                   mockMode, localProcessing, remoteUsed, recEntry, upCall,
                   upEnd, upSid, transPc, promptMessage, messages, refineTimers,
                   refineReqs, settingsPc, settings, originalSettings, isSaving,
                   saveCalls>>

\* RequestManualUpload: allowed for a Completed session with no upload task,
\* or to retry a Failed upload (a Failed session with autoUpload failed on the
\* device or in its upload; only the second can be retried).
ManualUploadAnswers ==
    IF srvState = "Completed" /\ ~srvAuto /\ upSid # srvSid THEN {"ok"}
    ELSE IF srvState = "Failed" /\ srvAuto THEN {"ok", "InvalidState"}
    ELSE {"InvalidState"}

\* manualUpload up to its await of fetch: the request is sent whatever the
\* state of the session (calls are followed one at a time).
ManualUpload ==
    /\ upCall = NoCall
    /\ upCall' = Request("upload")
    /\ UNCHANGED <<srvState, srvSid, srvAuto, isDemo, streamTitle,
                   dashIsRecording, dashCalls, dashAlert, socket, svcConnected,
                   ws, nPub, nCleanup, nDisconnect, initPc, statusReq,
                   isRecording, viewSid, stoppedSid, isLoading, isConnected,
                   error, sessionName, autoUpload, recCall, reported, lastCall,
                   lastFired, tasks, procState, nUploading, uploadIntervals,
                   mockMode, localProcessing, remoteUsed, recEntry, upEnd,
                   upSid, transPc, promptMessage, messages, refineTimers,
                   refineReqs, settingsPc, settings, originalSettings, isSaving,
                   saveCalls>>

\* The server takes POST /api/integrated/upload/manual.
SrvManualUpload ==
    /\ upCall.st = "req"
    /\ \E ans \in ManualUploadAnswers :
         /\ upCall' = Answer(upCall, ans, srvSid)
         /\ upSid' = IF ans = "ok" THEN srvSid ELSE upSid
    /\ UNCHANGED <<srvState, srvSid, srvAuto, isDemo, streamTitle,
                   dashIsRecording, dashCalls, dashAlert, socket, svcConnected,
                   ws, nPub, nCleanup, nDisconnect, initPc, statusReq,
                   isRecording, viewSid, stoppedSid, isLoading, isConnected,
                   error, sessionName, autoUpload, recCall, reported, lastCall,
                   lastFired, tasks, procState, nUploading, uploadIntervals,
                   mockMode, localProcessing, remoteUsed, recEntry, upEnd,
                   transPc, promptMessage, messages, refineTimers, refineReqs,
                   settingsPc, settings, originalSettings, isSaving, saveCalls>>

\* fetch() of manualUpload rejects.
UpNetFail ==
    /\ upCall.st \in {"req", "resp"}
    /\ ~Throws(upCall)
    /\ upCall' = Answer(upCall, "neterr", 0)
    /\ UNCHANGED <<srvState, srvSid, srvAuto, isDemo, streamTitle,
                   dashIsRecording, dashCalls, dashAlert, socket, svcConnected,
                   ws, nPub, nCleanup, nDisconnect, initPc, statusReq,
                   isRecording, viewSid, stoppedSid, isLoading, isConnected,
                   error, sessionName, autoUpload, recCall, reported, lastCall,
                   lastFired, tasks, procState, nUploading, uploadIntervals,
                   mockMode, localProcessing, remoteUsed, recEntry, upEnd,
                   upSid, transPc, promptMessage, messages, refineTimers,
                   refineReqs, settingsPc, settings, originalSettings, isSaving,
                   saveCalls>>

\* The response of manualUpload is not ok (an HTTP error).
UpHttpError ==
    /\ upCall.st \in {"req", "resp"}
    /\ ~Throws(upCall)
    /\ upCall' = Answer(upCall, "http", 0)
    /\ UNCHANGED <<srvState, srvSid, srvAuto, isDemo, streamTitle,
                   dashIsRecording, dashCalls, dashAlert, socket, svcConnected,
                   ws, nPub, nCleanup, nDisconnect, initPc, statusReq,
                   isRecording, viewSid, stoppedSid, isLoading, isConnected,
                   error, sessionName, autoUpload, recCall, reported, lastCall,
                   lastFired, tasks, procState, nUploading, uploadIntervals,
                   mockMode, localProcessing, remoteUsed, recEntry, upEnd,
                   upSid, transPc, promptMessage, messages, refineTimers,
                   refineReqs, settingsPc, settings, originalSettings, isSaving,
                   saveCalls>>

\* manualUpload after its awaits: it returns the result, or throws the error
\* to its caller (catch: console.error, throw error).
ManualUploadEnd ==
    /\ upCall.st = "resp"
    /\ upCall' = NoCall
    /\ upEnd' = IF Throws(upCall) THEN "thrown" ELSE "returned"
    /\ UNCHANGED <<srvState, srvSid, srvAuto, isDemo, streamTitle,
                   dashIsRecording, dashCalls, dashAlert, socket, svcConnected,
                   ws, nPub, nCleanup, nDisconnect, initPc, statusReq,
                   isRecording, viewSid, stoppedSid, isLoading, isConnected,
                   error, sessionName, autoUpload, recCall, reported, lastCall,
                   lastFired, tasks, procState, nUploading, uploadIntervals,
                   mockMode, localProcessing, remoteUsed, recEntry, upSid,
                   transPc, promptMessage, messages, refineTimers, refineReqs,
                   settingsPc, settings, originalSettings, isSaving, saveCalls>>
\* ------------------------------------- videoProcessingAPI.ts, Recordings.tsx
\* TaskStatus.status.
TaskStatuses == {"uploaded", "processing", "completed", "completed_simple", "error"}

\* The statuses on which pollTaskProgress stops.
Terminal(s) == s \in {"completed", "completed_simple", "error"}

\* TaskStatus.message of a task the service reports as failed; "" when absent.
Messages == {"", "disk full"}

\* status.message || 'Erreur de traitement'.
MessageOr(m) == IF m = "" THEN "Erreur de traitement" ELSE m

\* MOCK_MODE && LOCAL_PROCESSING: uploads are processed locally.
UseMockProcessing == mockMode /\ localProcessing

\* The progress values startLocalProcessing stores, after the initial 0.
LocalSteps == <<10, 25, 40, 60, 80, 95, 100>>

\* The value stored after progress p.
NextProgress(p) ==
    IF p = 0 THEN LocalSteps[1]
    ELSE LocalSteps[(CHOOSE i \in 1..(Len(LocalSteps) - 1) : LocalSteps[i] = p) + 1]

\* processingStates[recording.id] before any auto-montage; stopPolling is the
\* task whose poller the stored stopPolling function stops, 0 if none is stored.
NoProcessing ==
    [isProcessing |-> FALSE, taskStatus |-> "null", message |-> "",
     uploadProgress |-> 0,
     showProgress |-> FALSE, showResults |-> FALSE, stopPolling |-> 0]

\* A task just uploaded, with the poller pollTaskProgress starts for it: poll()
\* has run up to its await of getTaskStatus. polls, thrown, progress, complete
\* and failed count the getTaskStatus calls, those that threw, and the calls of
\* onProgress, onComplete and onError; seen is the terminal status observed.
\* local tells a task of processVideoLocally, whose stored progress is done.
NewTask ==
    [status |-> "uploaded", message |-> "", local |-> FALSE, done |-> 0,
     isPolling |-> TRUE, pc |-> "fetch", polls |-> 1, thrown |-> 0,
     progress |-> 0, complete |-> 0, failed |-> 0, seen |-> "none"]

\* getTaskStatus calls made so far by the pollers of the first n tasks.
RECURSIVE PollsOf(_)
PollsOf(n) == IF n = 0 THEN 0 ELSE tasks[n].polls + PollsOf(n - 1)

TotalPolls == PollsOf(Len(tasks))

\* ProcessingProgress offers Annuler while a task is shown and not finished.
CanCancel == procState.taskStatus \in {"uploaded", "processing"}

\* The AutoMontage button reads 'Voir résultats' and opens the results.
ViewResults == procState.taskStatus \in {"completed", "completed_simple"}

\* The simulated-upload intervals that are running: awaiting counts those of
\* handleAutoMontage calls still awaiting their upload, failed those of calls
\* whose upload failed.
NoIntervals == [awaiting |-> 0, failed |-> 0]

\* The interval of the call that ends may be running (own) or may have
\* cleared itself already: the calls awaiting are told apart only by that.
OwnInterval(own) ==
    /\ own => uploadIntervals.awaiting > 0
    /\ ~own => uploadIntervals.awaiting < nUploading

\* One tick of a simulated-upload interval (every 200 ms): it clears itself
\* when the progress has reached 100, and else adds 10 to it.
UploadIntervalTick(k) ==
    /\ k \in {"awaiting", "failed"}
    /\ uploadIntervals[k] > 0
    /\ IF procState.uploadProgress >= 100
         THEN /\ uploadIntervals' = [uploadIntervals EXCEPT ![k] = @ - 1]
              /\ UNCHANGED procState
         ELSE /\ procState' = [procState EXCEPT !.uploadProgress =
                                   IF @ + 10 < 100 THEN @ + 10 ELSE 100]
              /\ UNCHANGED uploadIntervals
    /\ UNCHANGED <<srvState, srvSid, srvAuto, isDemo, streamTitle,
                   dashIsRecording, dashCalls, dashAlert, socket, svcConnected,
                   ws, nPub, nCleanup, nDisconnect, initPc, statusReq,
                   isRecording, viewSid, stoppedSid, isLoading, isConnected,
                   error, sessionName, autoUpload, recCall, reported, lastCall,
                   lastFired, tasks, nUploading, mockMode, localProcessing,
                   remoteUsed, recEntry, upCall, upEnd, upSid, transPc,
                   promptMessage, messages, refineTimers, refineReqs,
                   settingsPc, settings, originalSettings, isSaving, saveCalls>>

\* The AutoMontage button when it does not open the results: handleAutoMontage
\* up to its await of uploadVideoForProcessing, which sends the file to the
\* processing server unless uploads are processed locally. It starts the
\* simulated-upload interval.
HandleAutoMontage ==
    /\ ~ViewResults
    /\ IF procState.isProcessing
         THEN UNCHANGED <<procState, nUploading, remoteUsed, uploadIntervals>>
         ELSE /\ Len(tasks) + nUploading < MaxUploads
              /\ procState' = [isProcessing |-> TRUE, taskStatus |-> "null", message |-> "",
                               uploadProgress |-> 0,
                               showProgress |-> TRUE, showResults |-> FALSE,
                               stopPolling |-> 0]
              /\ uploadIntervals' = [uploadIntervals EXCEPT !.awaiting = @ + 1]
              /\ nUploading' = nUploading + 1
              /\ remoteUsed' = (remoteUsed \/ ~UseMockProcessing)
    /\ UNCHANGED <<srvState, srvSid, srvAuto, isDemo, streamTitle,
                   dashIsRecording, dashCalls, dashAlert, socket, svcConnected,
                   ws, nPub, nCleanup, nDisconnect, initPc, statusReq,
                   isRecording, viewSid, stoppedSid, isLoading, isConnected,
                   error, sessionName, autoUpload, recCall, reported, lastCall,
                   lastFired, tasks, mockMode, localProcessing, recEntry,
                   upCall, upEnd, upSid, transPc, promptMessage, messages,
                   refineTimers, refineReqs, settingsPc, settings,
                   originalSettings, isSaving, saveCalls>>

\* handleAutoMontage after the upload: its interval is cleared, the task is
\* shown as uploaded, pollTaskProgress starts its poller and its stop function
\* is stored.
UploadDone ==
    /\ ~UseMockProcessing
    /\ nUploading > 0
    /\ Len(tasks) < MaxTasks
    /\ TotalPolls < MaxPolls
    /\ nUploading' = nUploading - 1
    /\ tasks' = Append(tasks, NewTask)
    /\ procState' = [procState EXCEPT !.taskStatus = "uploaded", !.message = "",
                                      !.uploadProgress = 100,
                                      !.stopPolling = Len(tasks) + 1]
    /\ \E own \in BOOLEAN :
         /\ OwnInterval(own)
         /\ uploadIntervals' = IF own THEN [uploadIntervals EXCEPT !.awaiting = @ - 1]
                               ELSE uploadIntervals
    /\ UNCHANGED <<srvState, srvSid, srvAuto, isDemo, streamTitle,
                   dashIsRecording, dashCalls, dashAlert, socket, svcConnected,
                   ws, nPub, nCleanup, nDisconnect, initPc, statusReq,
                   isRecording, viewSid, stoppedSid, isLoading, isConnected,
                   error, sessionName, autoUpload, recCall, reported, lastCall,
                   lastFired, mockMode, localProcessing, remoteUsed, recEntry,
                   upCall, upEnd, upSid, transPc, promptMessage, messages,
                   refineTimers, refineReqs, settingsPc, settings,
                   originalSettings, isSaving, saveCalls>>

\* The same after processVideoLocally: startLocalProcessing has stored the
\* initial state (processing, 0) and the poller reads the stored state.
UploadDoneLocal ==
    /\ UseMockProcessing
    /\ nUploading > 0
    /\ Len(tasks) < MaxTasks
    /\ TotalPolls < MaxPolls
    /\ nUploading' = nUploading - 1
    /\ tasks' = Append(tasks, [NewTask EXCEPT !.status = "processing", !.local = TRUE])
    /\ procState' = [procState EXCEPT !.taskStatus = "uploaded", !.message = "",
                                      !.uploadProgress = 100,
                                      !.stopPolling = Len(tasks) + 1]
    /\ \E own \in BOOLEAN :
         /\ OwnInterval(own)
         /\ uploadIntervals' = IF own THEN [uploadIntervals EXCEPT !.awaiting = @ - 1]
                               ELSE uploadIntervals
    /\ UNCHANGED <<srvState, srvSid, srvAuto, isDemo, streamTitle,
                   dashIsRecording, dashCalls, dashAlert, socket, svcConnected,
                   ws, nPub, nCleanup, nDisconnect, initPc, statusReq,
                   isRecording, viewSid, stoppedSid, isLoading, isConnected,
                   error, sessionName, autoUpload, recCall, reported, lastCall,
                   lastFired, mockMode, localProcessing, remoteUsed, recEntry,
                   upCall, upEnd, upSid, transPc, promptMessage, messages,
                   refineTimers, refineReqs, settingsPc, settings,
                   originalSettings, isSaving, saveCalls>>

\* handleAutoMontage's catch: the upload failed. The interval of the call is
\* not cleared.
UploadFail ==
    /\ nUploading > 0
    /\ nUploading' = nUploading - 1
    /\ procState' = [isProcessing |-> FALSE, taskStatus |-> "error", message |-> "upload",
                     uploadProgress |-> 0,
                     showProgress |-> FALSE, showResults |-> FALSE, stopPolling |-> 0]
    /\ \E own \in BOOLEAN :
         /\ OwnInterval(own)
         /\ own => uploadIntervals.failed < MaxIntervals
         /\ uploadIntervals' = IF own THEN [awaiting |-> uploadIntervals.awaiting - 1,
                                            failed |-> uploadIntervals.failed + 1]
                               ELSE uploadIntervals
    /\ UNCHANGED <<srvState, srvSid, srvAuto, isDemo, streamTitle,
                   dashIsRecording, dashCalls, dashAlert, socket, svcConnected,
                   ws, nPub, nCleanup, nDisconnect, initPc, statusReq,
                   isRecording, viewSid, stoppedSid, isLoading, isConnected,
                   error, sessionName, autoUpload, recCall, reported, lastCall,
                   lastFired, tasks, mockMode, localProcessing, remoteUsed,
                   recEntry, upCall, upEnd, upSid, transPc, promptMessage,
                   messages, refineTimers, refineReqs, settingsPc, settings,
                   originalSettings, isSaving, saveCalls>>

\* Annuler in the progress dialog: handleCancelProcessing calls the stored
\* stopPolling function, if any, and closes the dialog.
HandleCancelProcessing ==
    /\ procState.showProgress /\ CanCancel
    /\ tasks' = IF procState.stopPolling # 0
                  THEN [tasks EXCEPT ![procState.stopPolling].isPolling = FALSE]
                  ELSE tasks
    /\ procState' = [procState EXCEPT !.isProcessing = FALSE, !.showProgress = FALSE]
    /\ UNCHANGED <<srvState, srvSid, srvAuto, isDemo, streamTitle,
                   dashIsRecording, dashCalls, dashAlert, socket, svcConnected,
                   ws, nPub, nCleanup, nDisconnect, initPc, statusReq,
                   isRecording, viewSid, stoppedSid, isLoading, isConnected,
                   error, sessionName, autoUpload, recCall, reported, lastCall,
                   lastFired, nUploading, uploadIntervals, mockMode,
                   localProcessing, remoteUsed, recEntry, upCall, upEnd, upSid,
                   transPc, promptMessage, messages, refineTimers, refineReqs,
                   settingsPc, settings, originalSettings, isSaving, saveCalls>>

\* The progress dialog is closed.
HandleCloseProgress ==
    /\ procState.showProgress
    /\ procState' = [procState EXCEPT !.showProgress = FALSE]
    /\ UNCHANGED <<srvState, srvSid, srvAuto, isDemo, streamTitle,
                   dashIsRecording, dashCalls, dashAlert, socket, svcConnected,
                   ws, nPub, nCleanup, nDisconnect, initPc, statusReq,
                   isRecording, viewSid, stoppedSid, isLoading, isConnected,
                   error, sessionName, autoUpload, recCall, reported, lastCall,
                   lastFired, tasks, nUploading, uploadIntervals, mockMode,
                   localProcessing, remoteUsed, recEntry, upCall, upEnd, upSid,
                   transPc, promptMessage, messages, refineTimers, refineReqs,
                   settingsPc, settings, originalSettings, isSaving, saveCalls>>

\* The processing service moves a task on; a failure comes with its message.
TaskAdvance(id, s) ==
    /\ id \in 1..Len(tasks)
    /\ ~tasks[id].local
    /\ \/ tasks[id].status = "uploaded" /\ s \in {"processing", "error"}
       \/ tasks[id].status = "processing" /\ Terminal(s)
    /\ \E m \in Messages :
         /\ s # "error" => m = ""
         /\ tasks' = [tasks EXCEPT ![id].status = s, ![id].message = m]
    /\ UNCHANGED <<srvState, srvSid, srvAuto, isDemo, streamTitle,
                   dashIsRecording, dashCalls, dashAlert, socket, svcConnected,
                   ws, nPub, nCleanup, nDisconnect, initPc, statusReq,
                   isRecording, viewSid, stoppedSid, isLoading, isConnected,
                   error, sessionName, autoUpload, recCall, reported, lastCall,
                   lastFired, procState, nUploading, uploadIntervals, mockMode,
                   localProcessing, remoteUsed, recEntry, upCall, upEnd, upSid,
                   transPc, promptMessage, messages, refineTimers, refineReqs,
                   settingsPc, settings, originalSettings, isSaving, saveCalls>>

\* LocalStep with the status set to completed one step early, at 95.
LocalStepCompletesEarly(id) ==
    /\ id \in 1..Len(tasks)
    /\ tasks[id].local
    /\ tasks[id].done < 100
    /\ tasks' = [tasks EXCEPT
                   ![id].done = NextProgress(tasks[id].done),
                   ![id].status = IF NextProgress(tasks[id].done) >= 95
                                    THEN "completed" ELSE tasks[id].status]
    /\ UNCHANGED <<srvState, srvSid, srvAuto, isDemo, streamTitle,
                   dashIsRecording, dashCalls, dashAlert, socket, svcConnected,
                   ws, nPub, nCleanup, nDisconnect, initPc, statusReq,
                   isRecording, viewSid, stoppedSid, isLoading, isConnected,
                   error, sessionName, autoUpload, recCall, reported, lastCall,
                   lastFired, procState, nUploading, uploadIntervals, mockMode,
                   localProcessing, remoteUsed, recEntry, upCall, upEnd, upSid,
                   transPc, promptMessage, messages, refineTimers, refineReqs,
                   settingsPc, settings, originalSettings, isSaving, saveCalls>>

\* One turn of the loop of startLocalProcessing: the next progress value is
\* stored, with the status completed when it is 100.
LocalStep(id) ==
    /\ id \in 1..Len(tasks)
    /\ tasks[id].local
    /\ tasks[id].done < 100
    /\ tasks' = [tasks EXCEPT
                   ![id].done = NextProgress(tasks[id].done),
                   ![id].status = IF NextProgress(tasks[id].done) = 100
                                    THEN "completed" ELSE tasks[id].status]
    /\ UNCHANGED <<srvState, srvSid, srvAuto, isDemo, streamTitle,
                   dashIsRecording, dashCalls, dashAlert, socket, svcConnected,
                   ws, nPub, nCleanup, nDisconnect, initPc, statusReq,
                   isRecording, viewSid, stoppedSid, isLoading, isConnected,
                   error, sessionName, autoUpload, recCall, reported, lastCall,
                   lastFired, procState, nUploading, uploadIntervals, mockMode,
                   localProcessing, remoteUsed, recEntry, upCall, upEnd, upSid,
                   transPc, promptMessage, messages, refineTimers, refineReqs,
                   settingsPc, settings, originalSettings, isSaving, saveCalls>>

\* AfterPoll with onError given a fixed text instead of status.message.
AfterPollDefaultMessage(s, m) ==
    IF s \in {"completed", "completed_simple"}
      THEN [procState EXCEPT !.isProcessing = FALSE, !.taskStatus = s, !.message = m,
                             !.showProgress = FALSE, !.showResults = TRUE]
      ELSE IF s = "error"
             THEN [procState EXCEPT !.isProcessing = FALSE, !.taskStatus = "error",
                                    !.message = "Erreur de traitement"]
             ELSE [procState EXCEPT !.taskStatus = s, !.message = m]

\* What onProgress, then onComplete or onError, leave in the processing state
\* when getTaskStatus has returned status s with message m.
AfterPoll(s, m) ==
    IF s \in {"completed", "completed_simple"}
      THEN [procState EXCEPT !.isProcessing = FALSE, !.taskStatus = s, !.message = m,
                             !.showProgress = FALSE, !.showResults = TRUE]
      ELSE IF s = "error"
             THEN [procState EXCEPT !.isProcessing = FALSE, !.taskStatus = "error",
                                    !.message = MessageOr(m)]
             ELSE [procState EXCEPT !.taskStatus = s, !.message = m]

\* onComplete marks the recording as having highlights.
AfterPollEntry(s) ==
    IF s \in {"completed", "completed_simple"}
      THEN [recEntry EXCEPT !.hasHighlights = TRUE]
      ELSE recEntry

\* poll() with a setTimeout after every status, the terminal ones included.
PollReturnKeepsPolling(id) ==
    /\ id \in 1..Len(tasks)
    /\ tasks[id].pc = "fetch"
    /\ LET s == tasks[id].status
           t == tasks[id]
       IN  /\ tasks' = [tasks EXCEPT ![id] =
                   [t EXCEPT !.progress = t.progress + 1,
                             !.seen = IF Terminal(s) /\ t.seen = "none" THEN s ELSE t.seen,
                             !.complete = IF s \in {"completed", "completed_simple"}
                                            THEN t.complete + 1 ELSE t.complete,
                             !.failed = IF s = "error" THEN t.failed + 1 ELSE t.failed,
                             !.pc = "timer"]]
           /\ procState' = AfterPoll(s, t.message)
           /\ recEntry' = AfterPollEntry(s)
    /\ UNCHANGED <<srvState, srvSid, srvAuto, isDemo, streamTitle,
                   dashIsRecording, dashCalls, dashAlert, socket, svcConnected,
                   ws, nPub, nCleanup, nDisconnect, initPc, statusReq,
                   isRecording, viewSid, stoppedSid, isLoading, isConnected,
                   error, sessionName, autoUpload, recCall, reported, lastCall,
                   lastFired, nUploading, uploadIntervals, mockMode,
                   localProcessing, remoteUsed, upCall, upEnd, upSid, transPc,
                   promptMessage, messages, refineTimers, refineReqs,
                   settingsPc, settings, originalSettings, isSaving, saveCalls>>

\* poll() calling onProgress only while the task is not finished.
PollReturnNoProgressAtEnd(id) ==
    /\ id \in 1..Len(tasks)
    /\ tasks[id].pc = "fetch"
    /\ LET s == tasks[id].status
           t == tasks[id]
       IN  /\ tasks' = [tasks EXCEPT ![id] =
                   [t EXCEPT !.progress = IF Terminal(s) THEN t.progress ELSE t.progress + 1,
                             !.seen = IF Terminal(s) THEN s ELSE t.seen,
                             !.isPolling = IF Terminal(s) THEN FALSE ELSE t.isPolling,
                             !.complete = IF s \in {"completed", "completed_simple"}
                                            THEN t.complete + 1 ELSE t.complete,
                             !.failed = IF s = "error" THEN t.failed + 1 ELSE t.failed,
                             !.pc = IF Terminal(s) THEN "end" ELSE "timer"]]
           /\ procState' = AfterPoll(s, t.message)
           /\ recEntry' = AfterPollEntry(s)
    /\ UNCHANGED <<srvState, srvSid, srvAuto, isDemo, streamTitle,
                   dashIsRecording, dashCalls, dashAlert, socket, svcConnected,
                   ws, nPub, nCleanup, nDisconnect, initPc, statusReq,
                   isRecording, viewSid, stoppedSid, isLoading, isConnected,
                   error, sessionName, autoUpload, recCall, reported, lastCall,
                   lastFired, nUploading, uploadIntervals, mockMode,
                   localProcessing, remoteUsed, upCall, upEnd, upSid, transPc,
                   promptMessage, messages, refineTimers, refineReqs,
                   settingsPc, settings, originalSettings, isSaving, saveCalls>>

\* poll() after getTaskStatus has returned the task's status: onProgress, then
\* onComplete or onError on a terminal status, else the next setTimeout.
PollReturn(id) ==
    /\ id \in 1..Len(tasks)
    /\ tasks[id].pc = "fetch"
    /\ LET s == tasks[id].status
           t == tasks[id]
       IN  /\ tasks' = [tasks EXCEPT ![id] =
                   [t EXCEPT !.progress = t.progress + 1,
                             !.seen = IF Terminal(s) THEN s ELSE t.seen,
                             !.isPolling = IF Terminal(s) THEN FALSE ELSE t.isPolling,
                             !.complete = IF s \in {"completed", "completed_simple"}
                                            THEN t.complete + 1 ELSE t.complete,
                             !.failed = IF s = "error" THEN t.failed + 1 ELSE t.failed,
                             !.pc = IF Terminal(s) THEN "end" ELSE "timer"]]
           /\ procState' = AfterPoll(s, t.message)
           /\ recEntry' = AfterPollEntry(s)
    /\ UNCHANGED <<srvState, srvSid, srvAuto, isDemo, streamTitle,
                   dashIsRecording, dashCalls, dashAlert, socket, svcConnected,
                   ws, nPub, nCleanup, nDisconnect, initPc, statusReq,
                   isRecording, viewSid, stoppedSid, isLoading, isConnected,
                   error, sessionName, autoUpload, recCall, reported, lastCall,
                   lastFired, nUploading, uploadIntervals, mockMode,
                   localProcessing, remoteUsed, upCall, upEnd, upSid, transPc,
                   promptMessage, messages, refineTimers, refineReqs,
                   settingsPc, settings, originalSettings, isSaving, saveCalls>>

\* poll()'s catch: getTaskStatus threw (the request failed or was not ok).
PollThrow(id) ==
    /\ id \in 1..Len(tasks)
    /\ ~tasks[id].local
    /\ tasks[id].pc = "fetch"
    /\ tasks' = [tasks EXCEPT ![id].isPolling = FALSE,
                              ![id].thrown = tasks[id].thrown + 1,
                              ![id].failed = tasks[id].failed + 1,
                              ![id].pc = "end"]
    /\ procState' = [procState EXCEPT !.isProcessing = FALSE, !.taskStatus = "error",
                                      !.message = "neterr"]
    /\ UNCHANGED <<srvState, srvSid, srvAuto, isDemo, streamTitle,
                   dashIsRecording, dashCalls, dashAlert, socket, svcConnected,
                   ws, nPub, nCleanup, nDisconnect, initPc, statusReq,
                   isRecording, viewSid, stoppedSid, isLoading, isConnected,
                   error, sessionName, autoUpload, recCall, reported, lastCall,
                   lastFired, nUploading, uploadIntervals, mockMode,
                   localProcessing, remoteUsed, recEntry, upCall, upEnd, upSid,
                   transPc, promptMessage, messages, refineTimers, refineReqs,
                   settingsPc, settings, originalSettings, isSaving, saveCalls>>

\* The setTimeout of poll() fires: poll() returns if the poller was stopped,
\* else it calls getTaskStatus again, which asks the processing server unless
\* the task is a local one.
PollTimer(id) ==
    /\ id \in 1..Len(tasks)
    /\ tasks[id].pc = "timer"
    /\ tasks[id].isPolling => TotalPolls < MaxPolls
    /\ tasks' = IF tasks[id].isPolling
                  THEN [tasks EXCEPT ![id].pc = "fetch", ![id].polls = tasks[id].polls + 1]
                  ELSE [tasks EXCEPT ![id].pc = "end"]
    /\ remoteUsed' = (remoteUsed \/ (tasks[id].isPolling /\ ~tasks[id].local))
    /\ UNCHANGED <<srvState, srvSid, srvAuto, isDemo, streamTitle,
                   dashIsRecording, dashCalls, dashAlert, socket, svcConnected,
                   ws, nPub, nCleanup, nDisconnect, initPc, statusReq,
                   isRecording, viewSid, stoppedSid, isLoading, isConnected,
                   error, sessionName, autoUpload, recCall, reported, lastCall,
                   lastFired, procState, nUploading, uploadIntervals, mockMode,
                   localProcessing, recEntry, upCall, upEnd, upSid, transPc,
                   promptMessage, messages, refineTimers, refineReqs,
                   settingsPc, settings, originalSettings, isSaving, saveCalls>>


\* ------------------------------------------- Transcription (part_008)
Prompts == {"", " ", "fix"}
Contents == {"a", "b", " "}

\* useState(''): the value of promptMessage in the first render. The effect
\* with the empty dependency list runs once, so the interval keeps calling
\* the pollForTranscriptions of the first render, whose addRawMessage and
\* refineMessage read the promptMessage of that render.
FirstRenderPrompt == ""

\* loadSavedPrompt: the prompt saved at the server (p), '' when there is none;
\* a failed request is logged and leaves the prompt alone.
LoadSavedPrompt(p, ok) ==
    /\ transPc = "mount"
    /\ p \in Prompts
    /\ transPc' = "ready"
    /\ promptMessage' = IF ok THEN p ELSE promptMessage
    /\ UNCHANGED <<srvState, srvSid, srvAuto, isDemo, streamTitle,
                   dashIsRecording, dashCalls, dashAlert, socket, svcConnected,
                   ws, nPub, nCleanup, nDisconnect, initPc, statusReq,
                   isRecording, viewSid, stoppedSid, isLoading, isConnected,
                   error, sessionName, autoUpload, recCall, reported, lastCall,
                   lastFired, tasks, procState, nUploading, uploadIntervals,
                   mockMode, localProcessing, remoteUsed, recEntry, upCall,
                   upEnd, upSid, messages, refineTimers, refineReqs, settingsPc,
                   settings, originalSettings, isSaving, saveCalls>>

\* The prompt textarea is edited, or "use default" is clicked.
SetPromptMessage(p) ==
    /\ p \in Prompts
    /\ p # promptMessage
    /\ promptMessage' = p
    /\ UNCHANGED <<srvState, srvSid, srvAuto, isDemo, streamTitle,
                   dashIsRecording, dashCalls, dashAlert, socket, svcConnected,
                   ws, nPub, nCleanup, nDisconnect, initPc, statusReq,
                   isRecording, viewSid, stoppedSid, isLoading, isConnected,
                   error, sessionName, autoUpload, recCall, reported, lastCall,
                   lastFired, tasks, procState, nUploading, uploadIntervals,
                   mockMode, localProcessing, remoteUsed, recEntry, upCall,
                   upEnd, upSid, transPc, messages, refineTimers, refineReqs,
                   settingsPc, settings, originalSettings, isSaving, saveCalls>>

\* What GET /api/transcription/poll answers: no transcription, or a message.
PollAnswers ==
    {[type |-> "none", content |-> ""]}
        \cup [type : {"raw", "refined"}, content : Contents]

\* addRawMessage in the closure whose promptMessage is prompt: the raw message
\* is shown, and refineMessage is scheduled when that prompt is not blank.
AddRawMessage(content, prompt) ==
    /\ messages' = Append(messages, [type |-> "raw", content |-> content])
    /\ refineTimers' = IF Trim(prompt) # "" THEN Append(refineTimers, content)
                       ELSE refineTimers

\* One tick of the interval, from the answer of its fetch on: blank content
\* is dropped, a raw message goes to addRawMessage, a refined one is shown.
PollForTranscriptions(a) ==
    /\ a \in PollAnswers
    /\ Len(messages) < MaxMessages
    /\ IF a.type = "none" \/ Trim(a.content) = ""
         THEN UNCHANGED <<messages, refineTimers>>
       ELSE IF a.type = "raw"
         THEN AddRawMessage(Trim(a.content), FirstRenderPrompt)
       ELSE /\ messages' = Append(messages, [type |-> "refined", content |-> Trim(a.content)])
            /\ UNCHANGED refineTimers
    /\ UNCHANGED <<srvState, srvSid, srvAuto, isDemo, streamTitle,
                   dashIsRecording, dashCalls, dashAlert, socket, svcConnected,
                   ws, nPub, nCleanup, nDisconnect, initPc, statusReq,
                   isRecording, viewSid, stoppedSid, isLoading, isConnected,
                   error, sessionName, autoUpload, recCall, reported, lastCall,
                   lastFired, tasks, procState, nUploading, uploadIntervals,
                   mockMode, localProcessing, remoteUsed, recEntry, upCall,
                   upEnd, upSid, transPc, promptMessage, refineReqs, settingsPc,
                   settings, originalSettings, isSaving, saveCalls>>

\* A pending timer fires refineMessage(content) up to its await of fetch, in
\* the closure of the first render: it returns at once on a blank prompt.
\* addRawMessage is its only caller, and the prompt of that closure is blank,
\* so no timer is ever pending and this step is no part of NextTrans.
RefineMessage ==
    /\ refineTimers # <<>>
    /\ refineTimers' = Tail(refineTimers)
    /\ refineReqs' = IF Trim(FirstRenderPrompt) = "" THEN refineReqs
                     ELSE Append(refineReqs, [raw_text |-> Head(refineTimers),
                                              prompt |-> Trim(FirstRenderPrompt)])
    /\ UNCHANGED <<srvState, srvSid, srvAuto, isDemo, streamTitle,
                   dashIsRecording, dashCalls, dashAlert, socket, svcConnected,
                   ws, nPub, nCleanup, nDisconnect, initPc, statusReq,
                   isRecording, viewSid, stoppedSid, isLoading, isConnected,
                   error, sessionName, autoUpload, recCall, reported, lastCall,
                   lastFired, tasks, procState, nUploading, uploadIntervals,
                   mockMode, localProcessing, remoteUsed, recEntry, upCall,
                   upEnd, upSid, transPc, promptMessage, messages, settingsPc,
                   settings, originalSettings, isSaving, saveCalls>>

\* clearAllMessages.
ClearAllMessages ==
    /\ messages # <<>>
    /\ messages' = <<>>
    /\ UNCHANGED <<srvState, srvSid, srvAuto, isDemo, streamTitle,
                   dashIsRecording, dashCalls, dashAlert, socket, svcConnected,
                   ws, nPub, nCleanup, nDisconnect, initPc, statusReq,
                   isRecording, viewSid, stoppedSid, isLoading, isConnected,
                   error, sessionName, autoUpload, recCall, reported, lastCall,
                   lastFired, tasks, procState, nUploading, uploadIntervals,
                   mockMode, localProcessing, remoteUsed, recEntry, upCall,
                   upEnd, upSid, transPc, promptMessage, refineTimers,
                   refineReqs, settingsPc, settings, originalSettings, isSaving,
                   saveCalls>>

\* --------------------- SettingsProvider and Settings (part_007)
Keys == {"", "k1", "k2"}
Languages == {"en", "fr"}
SettingsValues == [groqApiKey : Keys, transcriptionLanguage : Languages]
defaultSettings == [groqApiKey |-> "", transcriptionLanguage |-> "en"]

\* JSON.stringify(settings) !== JSON.stringify(originalSettings)
hasUnsavedChanges == settings # originalSettings

\* loadSettings, run when the provider mounts: the settings of the server
\* become settings and originalSettings; a failed request changes nothing.
LoadSettings(s, ok) ==
    /\ settingsPc = "mount"
    /\ s \in SettingsValues
    /\ settingsPc' = "ready"
    /\ settings' = IF ok THEN s ELSE settings
    /\ originalSettings' = IF ok THEN s ELSE originalSettings
    /\ UNCHANGED <<srvState, srvSid, srvAuto, isDemo, streamTitle,
                   dashIsRecording, dashCalls, dashAlert, socket, svcConnected,
                   ws, nPub, nCleanup, nDisconnect, initPc, statusReq,
                   isRecording, viewSid, stoppedSid, isLoading, isConnected,
                   error, sessionName, autoUpload, recCall, reported, lastCall,
                   lastFired, tasks, procState, nUploading, uploadIntervals,
                   mockMode, localProcessing, remoteUsed, recEntry, upCall,
                   upEnd, upSid, transPc, promptMessage, messages, refineTimers,
                   refineReqs, isSaving, saveCalls>>

\* updateSettings(newSettings): the fields given replace those of settings.
UpdateSettings(field, v) == settings' = [settings EXCEPT ![field] = v]

\* The key field is edited.
UpdateGroqApiKey(k) ==
    /\ k \in Keys /\ k # settings.groqApiKey
    /\ UpdateSettings("groqApiKey", k)
    /\ UNCHANGED <<srvState, srvSid, srvAuto, isDemo, streamTitle,
                   dashIsRecording, dashCalls, dashAlert, socket, svcConnected,
                   ws, nPub, nCleanup, nDisconnect, initPc, statusReq,
                   isRecording, viewSid, stoppedSid, isLoading, isConnected,
                   error, sessionName, autoUpload, recCall, reported, lastCall,
                   lastFired, tasks, procState, nUploading, uploadIntervals,
                   mockMode, localProcessing, remoteUsed, recEntry, upCall,
                   upEnd, upSid, transPc, promptMessage, messages, refineTimers,
                   refineReqs, settingsPc, originalSettings, isSaving,
                   saveCalls>>

\* The language is chosen.
UpdateTranscriptionLanguage(l) ==
    /\ l \in Languages /\ l # settings.transcriptionLanguage
    /\ UpdateSettings("transcriptionLanguage", l)
    /\ UNCHANGED <<srvState, srvSid, srvAuto, isDemo, streamTitle,
                   dashIsRecording, dashCalls, dashAlert, socket, svcConnected,
                   ws, nPub, nCleanup, nDisconnect, initPc, statusReq,
                   isRecording, viewSid, stoppedSid, isLoading, isConnected,
                   error, sessionName, autoUpload, recCall, reported, lastCall,
                   lastFired, tasks, procState, nUploading, uploadIntervals,
                   mockMode, localProcessing, remoteUsed, recEntry, upCall,
                   upEnd, upSid, transPc, promptMessage, messages, refineTimers,
                   refineReqs, settingsPc, originalSettings, isSaving,
                   saveCalls>>

\* The provider's saveSettings up to its await of fetch, called by handler h:
\* the payload is made of the settings of the render the caller belongs to.
SaveSettings(h, rendered) ==
    /\ Len(saveCalls) < MaxSaves
    /\ saveCalls' = Append(saveCalls, [by |-> h, payload |-> rendered])

\* The Save button (disabled while isSaving): the component's saveSettings.
SaveSettingsClick ==
    /\ ~isSaving
    /\ isSaving' = TRUE
    /\ SaveSettings("saveSettings", settings)
    /\ UNCHANGED <<srvState, srvSid, srvAuto, isDemo, streamTitle,
                   dashIsRecording, dashCalls, dashAlert, socket, svcConnected,
                   ws, nPub, nCleanup, nDisconnect, initPc, statusReq,
                   isRecording, viewSid, stoppedSid, isLoading, isConnected,
                   error, sessionName, autoUpload, recCall, reported, lastCall,
                   lastFired, tasks, procState, nUploading, uploadIntervals,
                   mockMode, localProcessing, remoteUsed, recEntry, upCall,
                   upEnd, upSid, transPc, promptMessage, messages, refineTimers,
                   refineReqs, settingsPc, settings, originalSettings>>

\* The remove button, shown while the key is not empty: removeApiKey up to the
\* await. updateSettings queues the update of the state; contextSaveSettings
\* is the saveSettings of the render in which the button was clicked.
RemoveApiKey ==
    /\ settings.groqApiKey # ""
    /\ isSaving' = TRUE
    /\ UpdateSettings("groqApiKey", "")
    /\ SaveSettings("removeApiKey", settings)
    /\ UNCHANGED <<srvState, srvSid, srvAuto, isDemo, streamTitle,
                   dashIsRecording, dashCalls, dashAlert, socket, svcConnected,
                   ws, nPub, nCleanup, nDisconnect, initPc, statusReq,
                   isRecording, viewSid, stoppedSid, isLoading, isConnected,
                   error, sessionName, autoUpload, recCall, reported, lastCall,
                   lastFired, tasks, procState, nUploading, uploadIntervals,
                   mockMode, localProcessing, remoteUsed, recEntry, upCall,
                   upEnd, upSid, transPc, promptMessage, messages, refineTimers,
                   refineReqs, settingsPc, originalSettings>>

\* The request of call i is answered (ok) or fails, and both handlers end: on
\* success originalSettings becomes the settings the call was made with.
SaveSettingsEnd(i, ok) ==
    /\ i \in 1..Len(saveCalls)
    /\ originalSettings' = IF ok THEN saveCalls[i].payload ELSE originalSettings
    /\ saveCalls' = Remove(saveCalls, i)
    /\ isSaving' = FALSE
    /\ UNCHANGED <<srvState, srvSid, srvAuto, isDemo, streamTitle,
                   dashIsRecording, dashCalls, dashAlert, socket, svcConnected,
                   ws, nPub, nCleanup, nDisconnect, initPc, statusReq,
                   isRecording, viewSid, stoppedSid, isLoading, isConnected,
                   error, sessionName, autoUpload, recCall, reported, lastCall,
                   lastFired, tasks, procState, nUploading, uploadIntervals,
                   mockMode, localProcessing, remoteUsed, recEntry, upCall,
                   upEnd, upSid, transPc, promptMessage, messages, refineTimers,
                   refineReqs, settingsPc, settings>>
\* ------------------------------------------------------------------ claims
\* A Dashboard step that sends a start request.
DashStartSent ==
    /\ Len(dashCalls') = Len(dashCalls) + 1
    /\ dashCalls'[Len(dashCalls')].op = "start"

\* A step in which the server accepts a start request.
StartAccepted == srvSid' = srvSid + 1 /\ srvState' = "Recording"

\* C1: at most one session is Recording or Stopping: a start request is
\* accepted only while no session is Recording or Stopping, and the Dashboard
\* sends no start while an earlier start of its own is still unanswered.
C1_NoSecondStart ==
    [][/\ StartAccepted => ~SrvActive
       /\ DashStartSent => \A i \in 1..Len(dashCalls) : dashCalls[i].op # "start"]_vars

\* The Dashboard requests the server has not answered yet.
DashInFlight == {i \in 1..Len(dashCalls) : dashCalls[i].st \in {"req", "proc"}}

\* C2: start/stop requests are serialized: never two of them in flight together.
C2_SingleInFlight == Cardinality(DashInFlight) <= 1

\* A step that sends no stop request.
NoStopTriggered == recCall' = recCall \/ recCall'.op # "stop"

\* The fields of the component a start call must leave alone.
SessionFields == <<isRecording, sessionName, autoUpload, error>>

C4_ViewNeverBackToRecording ==
    [][(~isRecording /\ isRecording') => viewSid' > stoppedSid]_vars

\* C5: once the poller of a task has observed completed, completed_simple or
\* error it has called exactly one of onComplete and onError, once, it is
\* stopped with no poll scheduled, and it calls nothing afterwards.
C5_TerminalIsFinal ==
    [][\A id \in 1..Len(tasks') :
         /\ tasks'[id].seen # "none" =>
              /\ tasks'[id].complete + tasks'[id].failed = 1
              /\ tasks'[id].failed = 1 <=> tasks'[id].seen = "error"
              /\ tasks'[id].pc = "end" /\ ~tasks'[id].isPolling
         /\ (id <= Len(tasks) /\ tasks[id].seen # "none") => tasks'[id] = tasks[id]]_vars

\* C5 witness: a poller polled twice, observed completed on its second poll
\* and called onComplete once, while the component shows the results.
C5_Witness ==
    \E id \in 1..Len(tasks) :
      /\ tasks[id].seen = "completed" /\ tasks[id].polls = 2 /\ tasks[id].progress = 2
      /\ tasks[id].complete = 1 /\ tasks[id].failed = 0
      /\ procState.showResults /\ ~procState.isProcessing

\* C6: a poll that fails with a transient network error is no new
\* information: onError is not called, the status shown is kept and the next
\* poll is scheduled.
C6_TransientPollKeepsPolling ==
    [][\A id \in 1..Len(tasks) :
         tasks'[id].thrown = tasks[id].thrown + 1 =>
           /\ tasks'[id].failed = tasks[id].failed
           /\ procState'.taskStatus = procState.taskStatus
           /\ tasks'[id].isPolling = tasks[id].isPolling
           /\ tasks'[id].pc = "timer"]_vars

\* C7: against a service that keeps failing the poller does not give up on
\* the first failure: a poller ended by failed polls has made more than one.
C7_NoGiveUpOnFirstFailure ==
    \A id \in 1..Len(tasks) :
      (tasks[id].thrown > 0 /\ tasks[id].pc = "end") => tasks[id].thrown > 1

\* C8: a second disconnect() on the same connection changes nothing and cleans
\* up nothing: the cleanup of one socket happens at most once.
C8_DisconnectIdempotent ==
    [][(nDisconnect' = nDisconnect + 1 /\ nDisconnect >= 1) =>
          /\ UNCHANGED <<socket, svcConnected, nCleanup, ws, nPub, lastFired>>
          /\ nCleanup' <= 1]_vars

\* C8 witness: disconnect() was called twice on one socket, which was cleaned up once.
C8_Witness == nDisconnect = 2 /\ nCleanup = 1 /\ socket = "null"

\* C9: a subscriber joining while a session is in progress gets the current
\* state: when initializeService has applied the status and no later event is
\* still on its way, the component shows what the server is doing.
C9_SnapshotIsCurrent ==
    [][(initPc = "status" /\ initPc' = "done" /\ ws' = <<>>) =>
          isRecording' = SrvActive']_vars

C12_FailedStartIsReported ==
    [][(StartResponse /\ recCall.res # "ok") =>
          /\ isRecording' = isRecording
          /\ socket = "null" => ~isRecording'
          /\ ~(isRecording' /\ viewSid' = recCall.sid /\ recCall.res # "AlreadyRecording")
          /\ error' = recCall.res
          /\ reported' = recCall.res
          /\ ~isLoading']_vars

\* C12 witness: the device failed on a start sent by handleStartRecording,
\* which has returned: the failure is shown and reported, nothing is loading.
C12_Witness ==
    /\ lastCall.h = "start" /\ ~lastCall.rec /\ ~lastCall.load
    /\ recCall = NoCall /\ ~isLoading /\ ~isRecording
    /\ srvState = "Failed"
    /\ error = "DeviceError" /\ reported = "DeviceError"

\* C13: a failure is visible to the subscribed client as an explicit error:
\* while the server's session is Failed, a client that is subscribed, has
\* its initial status and has handled every event sent to it shows the error
\* of that session.
C13_FailureShownToSubscriber ==
    (srvState = "Failed" /\ socket = "open" /\ initPc = "done" /\ ws = <<>>)
        => error = "DeviceError"

\* A step of the component that belongs to the creation of a new session:
\* handleStartRecording sends a start, or recording_started is handled.
NewSessionStep ==
    \/ recCall.op = "none" /\ recCall'.op = "start"
    \/ ws # <<>> /\ Head(ws).type = "recording_started" /\ ws' = Tail(ws)

\* C14: the error field, once set, is emptied only by the creation of a new
\* session: no stop request and no other event empties it.
C14_ErrorClearedOnlyByNewSession ==
    [][(error # "none" /\ error' = "none") => NewSessionStep]_vars

\* A step that submits an upload.
UploadSubmitted == nUploading' = nUploading + 1

\* C16: an upload is submitted only for a recording with no upload task, or
\* to retry a failed one: never while an upload is on its way or a task is
\* shown as uploaded or processing.
C16_UploadOnlyWhenAllowed ==
    [][UploadSubmitted =>
          /\ nUploading = 0
          /\ procState.taskStatus \in {"null", "error"}]_vars

\* C17 as claimed: when the service reports a task as error with message m,
\* the status recorded is error with message exactly m, and the recording
\* entry is kept as it was.
C17_ErrorMessageExact ==
    [][\A id \in 1..Len(tasks) :
         (PollReturn(id) /\ tasks[id].status = "error") =>
           /\ procState'.taskStatus = "error"
           /\ procState'.message = tasks[id].message
           /\ recEntry' = recEntry /\ recEntry'.present]_vars

\* C17 as amended: the status recorded is error with message m when the
\* service gave one, and with 'Erreur de traitement' when it gave none; the
\* task is no longer shown as processing and the recording entry is kept.
C17_ErrorMessageKept ==
    [][\A id \in 1..Len(tasks) :
         (PollReturn(id) /\ tasks[id].status = "error") =>
           /\ procState'.taskStatus = "error"
           /\ procState'.message = MessageOr(tasks[id].message)
           /\ tasks[id].message # "" => procState'.message = tasks[id].message
           /\ ~procState'.isProcessing
           /\ recEntry' = recEntry /\ recEntry'.present]_vars

\* C17 witness: the service failed a task with a message, the poller observed
\* it and called onError, and the message is the one recorded.
C17_Witness ==
    \E id \in 1..Len(tasks) :
      /\ tasks[id].seen = "error" /\ tasks[id].failed = 1 /\ tasks[id].thrown = 0
      /\ tasks[id].message = "disk full"
      /\ procState.taskStatus = "error" /\ procState.message = "disk full"
      /\ recEntry.present

\* The poller of task id was stopped by handleCancelProcessing: it is not
\* polling though it observed no terminal status and no poll threw.
Cancelled(id) ==
    ~tasks[id].isPolling /\ tasks[id].seen = "none" /\ tasks[id].thrown = 0

\* C18: cancelling a submitted task abandons it: handleCancelProcessing leaves
\* it shown as failed, not as uploaded or processing, and a cancelled task
\* calls onComplete no more and is never shown as completed afterwards.
C18_CancelAbandonsTask ==
    [][/\ HandleCancelProcessing =>
            /\ procState'.taskStatus = "error"
            /\ \A id \in 1..Len(tasks) : ~tasks'[id].isPolling
       /\ \A id \in 1..Len(tasks) :
            Cancelled(id) =>
              /\ tasks'[id].complete = tasks[id].complete
              /\ procState'.taskStatus \notin {"completed", "completed_simple"}]_vars

\* C20: in mock mode nothing is asked of the remote processing server: with
\* VITE_MOCK_MODE true, neither the upload nor a status request goes to it.
C20_MockModeStaysLocal == mockMode => ~remoteUsed

\* The progress values a local task stores.
LocalProgress == {0} \cup {LocalSteps[i] : i \in 1..Len(LocalSteps)}

\* C19: a locally processed task stores the progress 0, 10, 25, 40, 60, 80,
\* 95, 100 in this order, never going back; its status is processing below
\* 100 and completed exactly at 100; and every local task that was started
\* is eventually completed.
C19_LocalTaskCompletes ==
    /\ [][\A id \in 1..Len(tasks') :
            tasks'[id].local =>
              /\ tasks'[id].done \in LocalProgress
              /\ tasks'[id].status = (IF tasks'[id].done = 100 THEN "completed"
                                      ELSE "processing")
              /\ id <= Len(tasks) =>
                   /\ tasks'[id].done >= tasks[id].done
                   /\ tasks'[id].done # tasks[id].done =>
                        tasks'[id].done = NextProgress(tasks[id].done)]_vars
    /\ \A id \in 1..MaxTasks :
         (id <= Len(tasks) /\ tasks[id].local)
            ~> (id <= Len(tasks) /\ tasks[id].done = 100 /\ tasks[id].status = "completed")

\* C19 witness: a local task went through its steps to 100, is completed, and
\* its poller saw it processing before it saw it completed.
C19_Witness ==
    \E id \in 1..Len(tasks) :
      /\ tasks[id].local /\ tasks[id].done = 100 /\ tasks[id].status = "completed"
      /\ tasks[id].seen = "completed" /\ tasks[id].progress >= 2

\* C11: no start, stop or manual-upload call of the service throws to its
\* caller: whatever the outcome of the request, the call returns a result.
C11_ServiceCallsReturn ==
    [][/\ (StartResponse \/ StopResponse) => ~Throws(recCall)
       /\ ManualUploadEnd => upEnd' = "returned"]_vars

\* The statuses that end a task well.
Done == {"completed", "completed_simple"}

C21_DemoSendsNothing ==
    /\ [](isDemo => (dashCalls = <<>> /\ ~dashIsRecording /\ srvSid = 0))
    /\ [][(isDemo /\ HandleStartRecord) =>
             /\ dashCalls' = <<>> /\ ~dashIsRecording'
             /\ dashAlert' \in {"title", "demo"}
             /\ UNCHANGED <<srvState, srvSid>>]_vars

\* C21 witness: in demo mode handleStartRecord was invoked with a title and
\* answered with the demo alert; nothing was sent.
C21_Witness ==
    /\ isDemo /\ Trim(streamTitle) # "" /\ dashAlert = "demo"
    /\ dashCalls = <<>> /\ ~dashIsRecording /\ srvSid = 0

\* A Dashboard step that sends a stop request.
DashStopSent ==
    /\ Len(dashCalls') = Len(dashCalls) + 1
    /\ dashCalls'[Len(dashCalls')].op = "stop"

\* C27: in local mode a recording started from the Dashboard can always be
\* stopped: handleStartRecord invoked while isRecording is true sends the stop
\* request, whatever the title field holds.
C27_RecordingCanBeStopped ==
    [][(HandleStartRecord /\ ~isDemo /\ dashIsRecording) => DashStopSent]_vars

\* The callbacks the poller of task id has made so far.
CallbacksOf(t) == <<t.progress, t.complete, t.failed>>

\* C23: once the stop function of a poller has been called the poller calls
\* none of its callbacks any more, also when a status request was in flight
\* at that moment, and the processing state of the recording is not changed
\* by the cancelled task.
C23_NoCallbackAfterStop ==
    [][\A id \in 1..Len(tasks) :
         Cancelled(id) =>
           /\ CallbacksOf(tasks'[id]) = CallbacksOf(tasks[id])
           /\ procState'.showResults = procState.showResults
           /\ (PollReturn(id) \/ PollThrow(id)) => procState' = procState]_vars

\* The event handled last was published after the server answered the
\* initial status request, and it set the recording flag.
LaterEventHandled ==
    /\ statusReq.st \in {"active", "idle"}
    /\ lastFired.seq > statusReq.seq
    /\ lastFired.type \in {"recording_started", "recording_stopped", "recording_status_update"}

\* C24: the recording flag is never overwritten by older information: when
\* initializeService applies the answer of the initial status request after
\* an event describing a later state was handled, the flag keeps its value.
C24_FlagNotOverwritten ==
    [][(InitStatusDone /\ LaterEventHandled) => isRecording' = isRecording]_vars

\* The poll receives the raw transcription a.
PollReceivesRaw(a) ==
    /\ a.type = "raw" /\ Trim(a.content) # ""
    /\ PollForTranscriptions(a)

\* C22: whenever the poll receives a raw transcription while the current
\* prompt is not blank, the refinement of that text is started (its
\* refineMessage call is scheduled, the only way a refine request is sent).
C22_RawIsRefined ==
    [][\A a \in PollAnswers :
         (PollReceivesRaw(a) /\ Trim(promptMessage) # "")
            => refineTimers' = Append(refineTimers, Trim(a.content))]_vars

\* C25: when the upload of handleAutoMontage fails, the processing state
\* settles at isProcessing = false, uploadProgress = 0, showProgress = false
\* with the error task status, and the interval of a failed call changes the
\* state no more.
C25_FailedUploadSettles ==
    /\ [][UploadFail =>
            /\ ~procState'.isProcessing /\ procState'.uploadProgress = 0
            /\ ~procState'.showProgress /\ procState'.taskStatus = "error"]_vars
    /\ [][UploadIntervalTick("failed") => procState' = procState]_vars

\* C26: removeApiKey removes the key: the payload of the save it starts has an
\* empty groq_api_key, and when that save succeeds the context has no unsaved
\* change and an empty key.
C26_RemoveApiKeyRemovesKey ==
    /\ [][RemoveApiKey =>
            saveCalls'[Len(saveCalls')].payload.groqApiKey = ""]_vars
    /\ [][\A i \in 1..Len(saveCalls) :
            (SaveSettingsEnd(i, TRUE) /\ saveCalls[i].by = "removeApiKey")
               => (~hasUnsavedChanges' /\ settings'.groqApiKey = "")]_vars
\* ---------------------------------------------------------- specifications
InitAny ==
    /\ srvState = "Idle" /\ srvSid = 0 /\ srvAuto = TRUE
    /\ isDemo \in BOOLEAN
    /\ streamTitle = ""
    /\ dashIsRecording = FALSE
    /\ dashCalls = <<>>
    /\ dashAlert = "none"
    /\ socket = "null" /\ svcConnected = FALSE /\ ws = <<>> /\ nPub = 0
    /\ nCleanup = 0 /\ nDisconnect = 0
    /\ initPc = "start" /\ statusReq = NoStatus
    /\ isRecording = FALSE /\ viewSid = 0 /\ stoppedSid = 0 /\ isLoading = FALSE
    /\ isConnected = FALSE
    /\ error = "none" /\ sessionName = "" /\ autoUpload = TRUE
    /\ recCall = NoCall /\ reported = "none"
    /\ lastCall = [h |-> "none", rec |-> FALSE, load |-> FALSE]
    /\ lastFired = NoFired
    /\ tasks = <<>> /\ procState = NoProcessing /\ nUploading = 0
    /\ uploadIntervals = NoIntervals
    /\ mockMode \in BOOLEAN /\ localProcessing \in BOOLEAN
    /\ remoteUsed = FALSE
    /\ recEntry = [present |-> TRUE, hasHighlights |-> FALSE]
    /\ upCall = NoCall /\ upEnd = "none" /\ upSid = 0
    /\ transPc = "mount" /\ promptMessage = FirstRenderPrompt
    /\ messages = <<>> /\ refineTimers = <<>> /\ refineReqs = <<>>
    /\ settingsPc = "mount" /\ settings = defaultSettings
    /\ originalSettings = defaultSettings
    /\ isSaving = FALSE /\ saveCalls = <<>>

\* The processing server is used: neither mock mode nor local processing.
Init == InitAny /\ ~mockMode /\ ~localProcessing

\* The Dashboard and the recording server.
NextDash ==
    \/ \E t \in Titles : SetStreamTitle(t)
    \/ HandleStartRecord
    \/ \E i \in 1..MaxInFlight : DashSrvStart(i)
    \/ \E i \in 1..MaxInFlight : DashSrvStop(i)
    \/ \E ans \in {"ok", "DeviceError"} : SrvStopConfirm(ans)
    \/ \E ok \in BOOLEAN : SrvUploadResult(ok)
    \/ SrvDeviceError
    \/ \E i \in 1..MaxInFlight : DashNetFail(i)
    \/ \E i \in 1..MaxInFlight : DashResponse(i)

SpecDash == Init /\ [][NextDash]_vars

\* The Dashboard is not mounted in the specifications below.
InitRec == Init /\ isDemo = FALSE

\* IntegratedRecording's start/stop handlers and its form, the recording
\* server and another operator; no WebSocket.
NextCtl ==
    \/ \E n \in SessionNames : SetSessionName(n)
    \/ SetAutoUpload
    \/ HandleStartRecording
    \/ HandleStopRecording
    \/ RecSrvStart
    \/ RecSrvStop
    \/ RecNetFail
    \/ StartResponse
    \/ StopResponse
    \/ \E ans \in {"ok", "DeviceError"} : SrvStopConfirm(ans)
    \/ \E ok \in BOOLEAN : SrvUploadResult(ok)
    \/ SrvDeviceError
    \/ \E ans \in {"ok", "DeviceError"} : OperatorStart(ans)
    \/ OperatorStop

SpecCtl == InitRec /\ [][NextCtl]_vars

\* IntegratedRecording subscribed over the WebSocket: initializeService, the
\* events, its start/stop handlers, the recording server and another operator.
NextRec ==
    \/ InitializeService
    \/ WsConnect
    \/ WsConnectError
    \/ SrvStatus
    \/ StatusNetFail
    \/ InitStatusDone
    \/ WsDeliver
    \/ HandleStartRecording
    \/ HandleStopRecording
    \/ RecSrvStart
    \/ RecSrvStop
    \/ RecNetFail
    \/ StartResponse
    \/ StopResponse
    \/ \E ans \in {"ok", "DeviceError"} : SrvStopConfirm(ans)
    \/ \E ok \in BOOLEAN : SrvUploadResult(ok)
    \/ SrvDeviceError
    \/ \E ans \in {"ok", "DeviceError"} : OperatorStart(ans)
    \/ OperatorStop
    \/ PublishStatus

SpecRec == InitRec /\ [][NextRec]_vars

\* The life of the subscription: initializeService, the events, disconnect()
\* and a new initializeService, while another operator drives the server.
NextConn ==
    \/ InitializeService
    \/ WsConnect
    \/ WsConnectError
    \/ SrvStatus
    \/ StatusNetFail
    \/ InitStatusDone
    \/ WsDeliver
    \/ Disconnect
    \/ \E ans \in {"ok", "DeviceError"} : SrvStopConfirm(ans)
    \/ \E ok \in BOOLEAN : SrvUploadResult(ok)
    \/ SrvDeviceError
    \/ \E ans \in {"ok", "DeviceError"} : OperatorStart(ans)
    \/ OperatorStop
    \/ PublishStatus

SpecConn == InitRec /\ [][NextConn]_vars

\* Recordings.tsx's auto-montage: the upload, the poller of each task and
\* the remote processing of the tasks.
\* The simulated-upload interval writes uploadProgress alone, which
\* no step reads but its own; its ticks are taken in SpecMontage.
NextPoll ==
    \/ HandleAutoMontage
    \/ UploadDone
    \/ UploadFail
    \/ HandleCancelProcessing
    \/ HandleCloseProgress
    \/ \E id \in 1..MaxTasks, s \in TaskStatuses : TaskAdvance(id, s)
    \/ \E id \in 1..MaxTasks : PollReturn(id)
    \/ \E id \in 1..MaxTasks : PollThrow(id)
    \/ \E id \in 1..MaxTasks : PollTimer(id)

SpecPoll == InitRec /\ [][NextPoll]_vars

\* The same with any setting of the mock mode.
InitMock == InitAny /\ ~isDemo

NextMock ==
    \/ NextPoll
    \/ UploadDoneLocal
    \/ \E id \in 1..MaxTasks : LocalStep(id)

SpecMock == InitMock /\ [][NextMock]_vars

\* The three calls of IntegratedRecordingService that change the server:
\* start and stop through IntegratedRecording's handlers, manualUpload called
\* directly, each with every outcome of its request.
NextUpload ==
    \/ NextCtl
    \/ RecHttpError
    \/ ManualUpload
    \/ SrvManualUpload
    \/ UpNetFail
    \/ UpHttpError
    \/ ManualUploadEnd

SpecUpload == InitRec /\ [][NextUpload]_vars

\* Mock mode with local processing: every upload is processed locally, and
\* the loop of startLocalProcessing, once started, keeps taking its turns.
InitLocal == InitMock /\ mockMode /\ localProcessing

NextLocal ==
    \/ HandleAutoMontage
    \/ UploadDoneLocal
    \/ UploadFail
    \/ HandleCancelProcessing
    \/ HandleCloseProgress
    \/ \E id \in 1..MaxTasks : LocalStep(id)
    \/ \E id \in 1..MaxTasks : PollReturn(id)
    \/ \E id \in 1..MaxTasks : PollTimer(id)

SpecLocal ==
    /\ InitLocal
    /\ [][NextLocal]_vars
    /\ \A id \in 1..MaxTasks : WF_vars(LocalStep(id))

\* The auto-montage with the ticks of the simulated-upload intervals.
NextMontage ==
    \/ NextPoll
    \/ \E k \in {"awaiting", "failed"} : UploadIntervalTick(k)

SpecMontage == InitRec /\ [][NextMontage]_vars

\* The Transcription component.
NextTrans ==
    \/ \E p \in Prompts, ok \in BOOLEAN : LoadSavedPrompt(p, ok)
    \/ \E p \in Prompts : SetPromptMessage(p)
    \/ \E a \in PollAnswers : PollForTranscriptions(a)
    \/ ClearAllMessages

SpecTrans == Init /\ [][NextTrans]_vars

\* The settings page: the provider and the Settings component.
NextSettings ==
    \/ \E s \in SettingsValues, ok \in BOOLEAN : LoadSettings(s, ok)
    \/ \E k \in Keys : UpdateGroqApiKey(k)
    \/ \E l \in Languages : UpdateTranscriptionLanguage(l)
    \/ SaveSettingsClick
    \/ RemoveApiKey
    \/ \E i \in 1..MaxSaves, ok \in BOOLEAN : SaveSettingsEnd(i, ok)

SpecSettings == Init /\ [][NextSettings]_vars

====

